---- MODULE Spec2Model ----
(***************************************************************************)
(* A model of the test object model (Tom): the composite tree, the state   *)
(* machine, skip/only resolution and the timed run of a test function,     *)
(* translated from src/dist/index.mjs.                                     *)
(***************************************************************************)
EXTENDS Integers, Sequences, FiniteSets, TLC

VARIABLES
  toms,   \* the Tom instances in creation order; a node is its position here
  runs,   \* the run() calls made so far, each with its promise race
  log,    \* the events the last step emitted, in order, and the body calls
  ret,    \* how the last synchronous call ended: returned or threw
  listeners,  \* the registered listeners of all nodes, in registration order
  heard   \* the handler calls the last step made, in order

vars == <<toms, runs, log, ret, listeners, heard>>

(***************************************************************************)
(* Bounds of the model.                                                    *)
(***************************************************************************)
MaxNodes == 3

(***************************************************************************)
(* JavaScript values: a tuple whose first element is the typeof tag.       *)
(***************************************************************************)
Undefined == <<"undefined">>
Str(s) == <<"string", s>>
Num(n) == <<"number", n>>
Fn == <<"function">>
Obj(o) == <<"object", o>>
TomRef(n) == <<"tom", n>>
TypeOf(v) == v[1]

\* An error value: its name, its message text and the value the message quotes.
Error(name, message, arg) == <<"error", name, message, arg>>
IsError(v) == v[1] = "error"

\* An options object: an absent key is <<>>, a present one <<value>>.
NoOptions ==
  [skip |-> <<>>, only |-> <<>>, todo |-> <<>>, timeout |-> <<>>, maxConcurrency |-> <<>>]

Return(op, n, v) == [op |-> op, node |-> n, threw |-> FALSE, value |-> v]
Throw(op, n, e) == [op |-> op, node |-> n, threw |-> TRUE, value |-> e]

(***************************************************************************)
(* Program constants.                                                      *)
(***************************************************************************)
DefaultTimeout == 10000
DefaultMaxConcurrency == 10

isPlainObject(input) == TypeOf(input) = "object"

\* x || dflt for an optional key of an options object
OrElse(opt, dflt, falsy) == IF opt = <<>> \/ opt = <<falsy>> THEN dflt ELSE opt[1]

(***************************************************************************)
(* new Tom(name, testFn, options)                                          *)
(***************************************************************************)
\* The branches on typeof name; typeof null is 'object'.
TomArgs(name, testFn, options) ==
  IF TypeOf(name) = "string"
  THEN IF isPlainObject(testFn)
       THEN [name |-> name, testFn |-> Undefined, options |-> testFn]
       ELSE [name |-> name, testFn |-> testFn, options |-> options]
  ELSE IF TypeOf(name) = "function"
  THEN [name |-> Str(""), testFn |-> name, options |-> testFn]
  ELSE IF TypeOf(name) \in {"object", "null"}
  THEN [name |-> Str(""), testFn |-> Undefined, options |-> name]
  ELSE [name |-> name, testFn |-> testFn, options |-> options]

\* Object.assign({ timeout: 10000 }, options)
AssignOptions(options) ==
  LET o == IF TypeOf(options) = "object" THEN options[2] ELSE NoOptions
  IN [o EXCEPT !.timeout = IF o.timeout = <<>> THEN <<DefaultTimeout>> ELSE o.timeout]

Tom(name, testFn, options) ==
  LET a == TomArgs(name, testFn, options)
      o == AssignOptions(a.options)
  IN [name |-> IF TypeOf(a.name) = "string" /\ a.name[2] # "" THEN a.name[2] ELSE "tom",
      testFn |-> a.testFn,
      index |-> 1,
      timeout |-> o.timeout[1],
      ended |-> FALSE,
      result |-> Undefined,
      maxConcurrency |-> OrElse(o.maxConcurrency, DefaultMaxConcurrency, 0),
      markedSkip |-> OrElse(o.skip, FALSE, FALSE),
      markedOnly |-> OrElse(o.only, FALSE, FALSE),
      options |-> o,
      state |-> "pending",
      parent |-> 0,
      children |-> <<>>]

(***************************************************************************)
(* Composite: the tree.                                                    *)
(***************************************************************************)
\* An add() that forgets the child's parent link.
addParentless(ts, p, c) == [ts EXCEPT ![p].children = Append(@, c)]

add(ts, p, c) == [ts EXCEPT ![c].parent = p, ![p].children = Append(@, c)]

RECURSIVE root(_, _)
root(ts, n) == IF ts[n].parent # 0 THEN root(ts, ts[n].parent) ELSE n

RECURSIVE level(_, _)
level(ts, n) == IF ts[n].parent # 0 THEN 1 + level(ts, ts[n].parent) ELSE 0

RECURSIVE parents(_, _)
parents(ts, n) ==
  IF ts[n].parent # 0 THEN <<ts[n].parent>> \o parents(ts, ts[n].parent) ELSE <<>>

\* The default iteration: the node, then each child's iteration, depth first.
RECURSIVE Iterate(_, _), IterateEach(_, _)
Iterate(ts, n) == <<n>> \o IterateEach(ts, ts[n].children)
IterateEach(ts, cs) ==
  IF cs = <<>> THEN <<>> ELSE Iterate(ts, Head(cs)) \o IterateEach(ts, Tail(cs))

Range(s) == {s[i] : i \in 1..Len(s)}

\* Links that add(), remove() and the setters of parent and children have
\* crossed: the recursion of root(), level() and parents(), or the nesting of
\* the iteration, never ends, and the call fails with this error.
RangeError == Error("RangeError", "Maximum call stack size exceeded", Undefined)

\* The parent links of n lead back to a node they have passed.
RECURSIVE loopsUp(_, _, _)
loopsUp(ts, n, seen) ==
  IF ts[n].parent = 0 THEN FALSE
  ELSE IF ts[n].parent \in seen THEN TRUE
  ELSE loopsUp(ts, ts[n].parent, seen \cup {ts[n].parent})

ParentLoop(ts, n) == loopsUp(ts, n, {n})

\* The iteration from n, up to the first child that is a node the iteration
\* is inside of: from there on it repeats what it has yielded. r is the nodes
\* yielded and whether such a child was met.
RECURSIVE visit(_, _, _, _), visitEach(_, _, _, _)
visit(ts, n, path, r) ==
  visitEach(ts, ts[n].children, path \cup {n}, [r EXCEPT !.seen = @ \cup {n}])
visitEach(ts, cs, path, r) ==
  IF cs = <<>> \/ r.looped THEN r
  ELSE IF Head(cs) \in path THEN [r EXCEPT !.looped = TRUE]
  ELSE visitEach(ts, Tail(cs), path, visit(ts, Head(cs), path, r))

ChildLoop(ts, n) == visit(ts, n, {}, [seen |-> {}, looped |-> FALSE]).looped
Visited(ts, n) == visit(ts, n, {}, [seen |-> {}, looped |-> FALSE]).seen

\* this.root() or the iteration of the root does not end.
Loops(ts, n) == ParentLoop(ts, n) \/ ChildLoop(ts, root(ts, n))

(***************************************************************************)
(* Skip/only resolution.                                                   *)
(***************************************************************************)
onlyExists(ts, n) == \E t \in Range(Iterate(ts, root(ts, n))) : ts[t].markedOnly

\* A resolution that rescans the receiver's subtree only, not the whole tree.
skipLogicSubtree(ts, n) ==
  IF onlyExists(ts, n)
  THEN LET tree == Range(Iterate(ts, n))
       IN [t \in 1..Len(ts) |->
             IF t \in tree THEN [ts[t] EXCEPT !.markedSkip = ~ts[t].markedOnly]
             ELSE ts[t]]
  ELSE ts

\* A resolution that does not ask whether an only mark exists.
skipLogicAlways(ts, n) ==
  LET tree == Range(Iterate(ts, root(ts, n)))
  IN [t \in 1..Len(ts) |->
        IF t \in tree THEN [ts[t] EXCEPT !.markedSkip = ~ts[t].markedOnly]
        ELSE ts[t]]

skipLogic(ts, n) ==
  IF onlyExists(ts, n)
  THEN LET tree == Range(Iterate(ts, root(ts, n)))
       IN [t \in 1..Len(ts) |->
             IF t \in tree THEN [ts[t] EXCEPT !.markedSkip = ~ts[t].markedOnly]
             ELSE ts[t]]
  ELSE ts

(***************************************************************************)
(* test(), skip(), only(): the outcome of the call, as the new instances   *)
(* and the way the call ended.                                             *)
(***************************************************************************)
StrictEqualsName(nodeName, name) == TypeOf(name) = "string" /\ name[2] = nodeName

\* for (const child of this) { if (child.name === name) throw ... }, over the
\* nodes the iteration yields, also when it does not end.
DuplicateName(ts, p, name) ==
  \E child \in Visited(ts, p) : StrictEqualsName(ts[child].name, name)

\* An insertion that validates the name after it has added the child.
testAddFirst(ts, p, name, testFn, options) ==
  LET c == Len(ts) + 1
      added == add(Append(ts, Tom(name, testFn, options)), p, c)
      indexed == [added EXCEPT ![c].index = Len(added[p].children)]
  IN IF DuplicateName(ts, p, name)
     THEN [toms |-> indexed, ret |-> Throw("test", p, Error("Error", "Duplicate name: ", name))]
     ELSE [toms |-> skipLogic(indexed, p), ret |-> Return("test", p, TomRef(c))]

\* An insertion that returns the receiver, as a chainable call would.
testChainable(ts, p, name, testFn, options) ==
  IF DuplicateName(ts, p, name)
  THEN [toms |-> ts, ret |-> Throw("test", p, Error("Error", "Duplicate name: ", name))]
  ELSE LET c == Len(ts) + 1
           added == add(Append(ts, Tom(name, testFn, options)), p, c)
           indexed == [added EXCEPT ![c].index = Len(added[p].children)]
       IN [toms |-> skipLogic(indexed, p), ret |-> Return("test", p, TomRef(p))]

\* this._skipLogic() and return test, on the nodes with the child added.
testAdded(indexed, p, c) ==
  IF Loops(indexed, p) THEN [toms |-> indexed, ret |-> Throw("test", p, RangeError)]
  ELSE [toms |-> skipLogic(indexed, p), ret |-> Return("test", p, TomRef(c))]

test(ts, p, name, testFn, options) ==
  IF DuplicateName(ts, p, name)
  THEN [toms |-> ts, ret |-> Throw("test", p, Error("Error", "Duplicate name: ", name))]
  ELSE IF ChildLoop(ts, p) THEN [toms |-> ts, ret |-> Throw("test", p, RangeError)]
  ELSE LET c == Len(ts) + 1
           added == add(Append(ts, Tom(name, testFn, options)), p, c)
           indexed == [added EXCEPT ![c].index = Len(added[p].children)]
       IN testAdded(indexed, p, c)

\* options = options || {}; options[key] = true
Mark(options, key) ==
  LET o == IF TypeOf(options) = "object" THEN options[2] ELSE NoOptions
  IN Obj([o EXCEPT ![key] = <<TRUE>>])

skip(ts, p, name, testFn, options) == test(ts, p, name, testFn, Mark(options, "skip"))

only(ts, p, name, testFn, options) == test(ts, p, name, testFn, Mark(options, "only"))

(***************************************************************************)
(* Building a tree: the arguments the calls are made with.                 *)
(***************************************************************************)
Names == {Undefined, Str("a"), Str("b")}
SkipOption == Obj([NoOptions EXCEPT !.skip = <<TRUE>>])
OnlyOption == Obj([NoOptions EXCEPT !.only = <<TRUE>>])
SkipOnlyOption == Obj([NoOptions EXCEPT !.skip = <<TRUE>>, !.only = <<TRUE>>])
MarkOptions == {Undefined, SkipOption, OnlyOption, SkipOnlyOption}

Nodes == 1..Len(toms)

\* The call is made with room for the node it may add.
Built(p, name, r) ==
  /\ Len(toms) < MaxNodes \/ DuplicateName(toms, p, name)
  /\ toms' = r.toms
  /\ ret' = r.ret
  /\ log' = <<>>
  /\ UNCHANGED <<runs, listeners, heard>>

Test(p, name, options) == Built(p, name, test(toms, p, name, Fn, options))

Skip(p, name, options) == Built(p, name, skip(toms, p, name, Fn, options))

Only(p, name, options) == Built(p, name, only(toms, p, name, Fn, options))

InitTree ==
  /\ \E name \in Names, options \in MarkOptions : toms = <<Tom(name, Fn, options)>>
  /\ runs = <<>>
  /\ log = <<>>
  /\ listeners = <<>> /\ heard = <<>>
  /\ ret = Return("new", 1, TomRef(1))

NextTree ==
  \E p \in Nodes, name \in Names :
    \/ \E options \in MarkOptions : Test(p, name, options)
    \/ \E options \in {Undefined, OnlyOption} : Skip(p, name, options)
    \/ \E options \in {Undefined, SkipOption} : Only(p, name, options)

SpecTree == InitTree /\ [][NextTree]_vars

(***************************************************************************)
(* Emitter: an emitted event reaches the listeners of the node and, by      *)
(* bubbling, of every ancestor; the log keeps each emission with its target.*)
(***************************************************************************)
emit(lg, n, eventName, args) == Append(lg, [target |-> n, name |-> eventName, args |-> args])

\* on(handler) registers the handler under this name, for every event.
ALL == "__ALL__"

\* on(eventName, handler, options): the listener pushed.
Listener(n, eventName, handler, once) ==
  [node |-> n, eventName |-> eventName, handler |-> handler, once |-> once]

\* handler.call(target, ...handlerArgs)
HandlerCall(l, target, eventName, args) ==
  [handler |-> l.handler, this |-> target,
   args |-> IF l.eventName = ALL THEN <<Str(eventName)>> \o args ELSE args]

\* A handler that emits an event of its own on the node it is called on:
\* function () { this.emit('ping') }
Emitting == {"again"}
Ping == "ping"

\* The handler that propagate() registers for node n:
\* (...args) => this.emit(eventName, ...args)
Propagator(n) == "emit on " \o ToString(n)
IsPropagator(ts, handler) == \E m \in 1..Len(ts) : handler = Propagator(m)
PropagatesTo(ts, handler) == CHOOSE m \in 1..Len(ts) : handler = Propagator(m)

\* this._listeners of node at, in the order of registration
listenersOf(ls, at) == SelectSeq(ls, LAMBDA l : l.node = at)

\* this._listeners.splice(this._listeners.indexOf(listener), 1): a listener
\* that is no longer in the array has index -1, and splice(-1, 1) removes the
\* last element.
spliceAt(ls, at, l) ==
  LET own == listenersOf(ls, at)
      present == \E i \in 1..Len(own) : own[i] = l
  IN IF own = <<>> THEN ls
     ELSE SelectSeq(ls, LAMBDA x : x # (IF present THEN l ELSE own[Len(own)]))

\* toRemove.forEach(listener => ...)
RECURSIVE removeEach(_, _, _)
removeEach(ls, at, toRemove) ==
  IF toRemove = <<>> THEN ls
  ELSE removeEach(spliceAt(ls, at, Head(toRemove)), at, Tail(toRemove))

RECURSIVE invoke(_, _, _, _, _, _), invokeEach(_, _, _, _, _, _, _, _)
RECURSIVE bubbleUp(_, _, _, _, _, _), emitTarget(_, _, _, _, _, _), Emitter_emit(_, _, _, _, _)

\* listener.handler.call(target, ...handlerArgs); d is the listeners, the
\* calls made to the caller's handlers and the emissions logged so far. A
\* handler that emits does so while it is being called; the handler that
\* propagate() made is not the caller's, and only its emission is kept.
invoke(ts, d, l, target, eventName, args) ==
  IF l.handler \in Emitting
  THEN Emitter_emit(ts, [d EXCEPT !.heard = Append(@, HandlerCall(l, target, eventName, args))],
                    target, Ping, <<>>)
  ELSE IF IsPropagator(ts, l.handler)
  THEN Emitter_emit(ts, d, PropagatesTo(ts, l.handler), l.eventName,
                    HandlerCall(l, target, eventName, args).args)
  ELSE [d EXCEPT !.heard = Append(@, HandlerCall(l, target, eventName, args))]

\* for (const listener of this._listeners) from index i on, over the array as
\* it is at each step, and the removal of the once listeners after the loop.
invokeEach(ts, d, at, target, eventName, args, i, toRemove) ==
  IF i > Len(listenersOf(d.listeners, at))
  THEN [d EXCEPT !.listeners = removeEach(@, at, toRemove)]
  ELSE IF listenersOf(d.listeners, at)[i].eventName \in {ALL, eventName}
       THEN invokeEach(ts, invoke(ts, d, listenersOf(d.listeners, at)[i], target, eventName, args),
                       at, target, eventName, args, i + 1,
                       IF listenersOf(d.listeners, at)[i].once
                       THEN Append(toRemove, listenersOf(d.listeners, at)[i]) ELSE toRemove)
       ELSE invokeEach(ts, d, at, target, eventName, args, i + 1, toRemove)

\* The loop over the listeners of node at: each relevant one is called, and
\* the once listeners among them are removed after the loop.
callListeners(ts, d, at, target, eventName, args) ==
  invokeEach(ts, d, at, target, eventName, args, 1, <<>>)

\* if (this.parent) this.parent._emitTarget(eventName, target, ...args)
bubbleUp(ts, d, at, target, eventName, args) ==
  IF ts[at].parent # 0 THEN emitTarget(ts, d, ts[at].parent, target, eventName, args)
  ELSE d

\* _emitTarget(eventName, target, ...args) on node at
emitTarget(ts, d, at, target, eventName, args) ==
  bubbleUp(ts, callListeners(ts, d, at, target, eventName, args), at, target, eventName, args)

\* emit(eventName, ...args) on node n, as the listeners see it; the emission
\* is logged before they are called.
Emitter_emit(ts, d, n, eventName, args) ==
  bubbleUp(ts, callListeners(ts, [d EXCEPT !.log = emit(@, n, eventName, args)],
                             n, n, eventName, args),
           n, n, eventName, args)

\* The emissions of a step, one after the other, each with the emissions its
\* handlers make; the call of the test function that the log keeps between
\* them is no emission.
RECURSIVE emitEach(_, _, _)
emitEach(ts, d, evs) ==
  IF evs = <<>> THEN d
  ELSE emitEach(ts,
                IF Head(evs).name = "(body)" THEN [d EXCEPT !.log = Append(@, Head(evs))]
                ELSE Emitter_emit(ts, d, Head(evs).target, Head(evs).name, Head(evs).args),
                Tail(evs))

(***************************************************************************)
(* StateMachine: the valid moves a Tom is constructed with.                *)
(***************************************************************************)
InitialState == "pending"

\* The valid moves with the moves back to pending declared as well.
ValidMovesWithReset ==
  << [from |-> <<"pending">>, to |-> <<"in-progress">>],
     [from |-> <<"pending">>, to |-> <<"skipped">>],
     [from |-> <<"pending">>, to |-> <<"ignored">>],
     [from |-> <<"in-progress">>, to |-> <<"pass">>],
     [from |-> <<"in-progress">>, to |-> <<"fail">>],
     [from |-> <<"in-progress">>, to |-> <<"pending">>],
     [from |-> <<"pass">>, to |-> <<"pending">>],
     [from |-> <<"fail">>, to |-> <<"pending">>],
     [from |-> <<"skipped">>, to |-> <<"pending">>],
     [from |-> <<"ignored">>, to |-> <<"pending">>] >>

ValidMoves ==
  << [from |-> <<"pending">>, to |-> <<"in-progress">>],
     [from |-> <<"pending">>, to |-> <<"skipped">>],
     [from |-> <<"pending">>, to |-> <<"ignored">>],
     [from |-> <<"in-progress">>, to |-> <<"pass">>],
     [from |-> <<"in-progress">>, to |-> <<"fail">>] >>

Ok(ts, lg) == [toms |-> ts, log |-> lg, threw |-> FALSE, error |-> Undefined]
Thrown(ts, lg, e) == [toms |-> ts, log |-> lg, threw |-> TRUE, error |-> e]

RECURSIVE Froms(_, _)
Froms(moves, state) ==
  IF moves = <<>> THEN <<>>
  ELSE (IF state \in Range(Head(moves).to) THEN Head(moves).from ELSE <<>>)
       \o Froms(Tail(moves), state)

InvalidState(state) == Error("INVALID_MOVE", "Invalid state: ", Str(state))
InvalidMove(state, prevState) ==
  Error("INVALID_MOVE", "Can only move to", <<state, Froms(ValidMoves, state), prevState>>)
IsInvalidMove(e) == IsError(e) /\ e[2] = "INVALID_MOVE"

\* A setState that makes every move asked for.
StateMachine_setStateAnyMove(ts, lg, n, state, args) ==
  IF ts[n].state = state THEN Ok(ts, lg)
  ELSE Ok([ts EXCEPT ![n].state = state],
          emit(emit(lg, n, "state", <<Str(state), Str(ts[n].state)>>), n, state, args))

\* A setState that does not return early when the state is the current one.
StateMachine_setStateNoReturn(ts, lg, n, state, args) ==
  LET prevState == ts[n].state
      validTo == \E i \in 1..Len(ValidMoves) : state \in Range(ValidMoves[i].to)
      moved == \E i \in 1..Len(ValidMoves) :
                 prevState \in Range(ValidMoves[i].from) /\ state \in Range(ValidMoves[i].to)
  IN IF ~validTo THEN Thrown(ts, lg, InvalidState(state))
     ELSE IF moved
     THEN Ok([ts EXCEPT ![n].state = state],
             emit(emit(lg, n, "state", <<Str(state), Str(prevState)>>), n, state, args))
     ELSE Thrown(ts, lg, InvalidMove(state, prevState))

StateMachine_setState(ts, lg, n, state, args) ==
  LET prevState == ts[n].state
      validTo == \E i \in 1..Len(ValidMoves) : state \in Range(ValidMoves[i].to)
      moved == \E i \in 1..Len(ValidMoves) :
                 prevState \in Range(ValidMoves[i].from) /\ state \in Range(ValidMoves[i].to)
  IN IF prevState = state THEN Ok(ts, lg)
     ELSE IF ~validTo THEN Thrown(ts, lg, InvalidState(state))
     ELSE IF moved
     THEN Ok([ts EXCEPT ![n].state = state],
             emit(emit(lg, n, "state", <<Str(state), Str(prevState)>>), n, state, args))
     ELSE Thrown(ts, lg, InvalidMove(state, prevState))

\* A reset that asks setState() for the move to the initial state.
resetStateBySetState(ts, lg, n) == StateMachine_setState(ts, lg, n, InitialState, <<>>)

resetState(ts, lg, n) ==
  Ok([ts EXCEPT ![n].state = InitialState], emit(lg, n, "reset", <<Str(ts[n].state)>>))

(***************************************************************************)
(* Tom.setState(state, target, data)                                       *)
(***************************************************************************)
\* A setState that emits end before the move instead of after it.
Tom_setStateEndFirst(ts, lg, n, state, target, data) ==
  LET ends == state = "pass" \/ state = "fail"
      marked == IF ends THEN [ts EXCEPT ![n].ended = TRUE] ELSE ts
  IN StateMachine_setState(marked, IF ends THEN emit(lg, n, "end", <<>>) ELSE lg,
                           n, state, <<target, data>>)

\* The end event that follows super.setState() if it returned.
endAfter(r, n, ends) ==
  IF r.threw \/ ~ends THEN r ELSE [r EXCEPT !.log = emit(r.log, n, "end", <<>>)]

Tom_setState(ts, lg, n, state, target, data) ==
  LET ends == state = "pass" \/ state = "fail"
      marked == IF ends THEN [ts EXCEPT ![n].ended = TRUE] ELSE ts
  IN endAfter(StateMachine_setState(marked, lg, n, state, <<target, data>>), n, ends)

(***************************************************************************)
(* Tom.reset(deep)                                                         *)
(***************************************************************************)
resetOne(ts, lg, n) ==
  LET r == resetState([ts EXCEPT ![n].index = 1], lg, n)
  IN [r EXCEPT !.toms[n].markedSkip = OrElse(ts[n].options.skip, FALSE, FALSE),
               !.toms[n].markedOnly = OrElse(ts[n].options.only, FALSE, FALSE)]

RECURSIVE resetEach(_, _, _)
resetEach(ts, lg, ns) ==
  IF ns = <<>> THEN Ok(ts, lg)
  ELSE LET r == resetOne(ts, lg, Head(ns)) IN resetEach(r.toms, r.log, Tail(ns))

\* A reset that never goes below the node it is called on.
resetShallow(ts, lg, n, deep) == resetOne(ts, lg, n)

reset(ts, lg, n, deep) ==
  IF deep THEN resetEach(ts, lg, Iterate(ts, n)) ELSE resetOne(ts, lg, n)

(***************************************************************************)
(* raceTimeout(ms): never resolves, rejects with this error after ms.      *)
(***************************************************************************)
raceTimeout(ms) == Error("Error", "Timeout expired", Num(ms))

(***************************************************************************)
(* Tom.run(): the promise it returns, and the race it may start.           *)
(***************************************************************************)
Pending == <<"pending">>
Fulfilled(v) == <<"fulfilled", v>>
Rejected(e) == <<"rejected", e>>

\* What the test function does when it is called.
Behaviour(kind, settle, value, delay) ==
  [kind |-> kind, settle |-> settle, value |-> value, delay |-> delay]

\* A run() call: the promise returned (outcome), whether the test function was
\* called, the two competitors of the race, if one was started, what the then
\* handler of the chain has thrown and the catch handler has yet to receive,
\* and the events the call and its continuation have emitted so far.
NewRun(n) ==
  [node |-> n, invoked |-> FALSE, outcome |-> Pending,
   body |-> "none", bodyOut |-> <<"never">>, delay |-> 0,
   timer |-> "none", timeout |-> 0, winner |-> "none",
   thrown |-> <<>>,
   events |-> <<>>]

Done(r, res, outcome) ==
  [toms |-> res.toms, log |-> res.log,
   run |-> [r EXCEPT !.outcome = outcome, !.events = res.log]]

\* return result, unless the handler has thrown.
returning(r, result) == [r EXCEPT !.error = IF r.threw THEN r.error ELSE result]

\* A handler that ends without throwing the error again.
swallowing(r, err) == Ok(r.toms, r.log)

\* throw err, unless the handler has thrown something itself.
rethrowing(r, err) == Thrown(r.toms, r.log, IF r.threw THEN r.error ELSE err)

\* A fulfilment handler that does not store the result on the node.
onFulfilledNoResult(ts, lg, n, result) ==
  returning(Tom_setState(ts, lg, n, "pass", TomRef(n), result), result)

\* A fulfilment handler that stores the result on the root of the tree.
onFulfilledOnRoot(ts, lg, n, result) ==
  returning(Tom_setState([ts EXCEPT ![root(ts, n)].result = result], lg, n, "pass",
                         TomRef(n), result),
            result)

\* .then(result => { this.result = result; this.setState('pass', this, result); return result })
onFulfilled(ts, lg, n, result) ==
  returning(Tom_setState([ts EXCEPT ![n].result = result], lg, n, "pass", TomRef(n), result),
            result)

\* A rejection handler that passes the error on and leaves the state alone.
onRejectedNoFail(ts, lg, n, err) == Thrown(ts, lg, err)

\* .catch(err => { this.setState('fail', this, err); throw err })
onRejected(ts, lg, n, err) ==
  rethrowing(Tom_setState(ts, lg, n, "fail", TomRef(n), err), err)

\* What is thrown on the way to the pass goes on to the fail handler.
caught(r, n) == IF r.threw THEN onRejected(r.toms, r.log, n, r.error) ELSE r

\* The job the settled race queues: the then handler if it is fulfilled, and
\* the catch handler, which a rejection passes on to, if it is rejected.
Settlement(ts, lg, n, settled) ==
  IF settled[1] = "fulfilled" THEN onFulfilled(ts, lg, n, settled[2])
  ELSE onRejected(ts, lg, n, settled[2])

Outcome(r) == IF r.threw THEN Rejected(r.error) ELSE Fulfilled(r.error)

\* The promise of an async function that ends without a return value.
AsOutcome(r) == IF r.threw THEN Rejected(r.error) ELSE Fulfilled(Undefined)

\* The async function ends with what setState did: it returns or throws.
returned(r, n) == Done(NewRun(n), r, AsOutcome(r))

\* The branch of run() for a marked-skip node.
runSkipped(ts, lg, n) == returned(Tom_setState(ts, lg, n, "skipped", TomRef(n), Undefined), n)

\* A run() that treats a node without a test function as a skipped one.
runIgnoredAsSkipped(ts, lg, n) ==
  returned(Tom_setState(ts, lg, n, "skipped", TomRef(n), Undefined), n)

\* The branch of run() for a node without a test function.
runIgnored(ts, lg, n) == returned(Tom_setState(ts, lg, n, "ignored", TomRef(n), Undefined), n)

\* The async function ends after the test function was called.
finished(f, n) == Done([NewRun(n) EXCEPT !.invoked = TRUE], f, Outcome(f))

\* this.testFn.call(...) behaving as b, in the try block, after start.
called(ts, started, n, b) ==
  IF b.kind = "promise"
  THEN [toms |-> ts, log |-> started,
        run |-> [NewRun(n) EXCEPT
                   !.invoked = TRUE,
                   !.body = "pending",
                   !.bodyOut = <<b.settle, b.value>>,
                   !.delay = b.delay,
                   !.timer = "armed",
                   !.timeout = ts[n].timeout,
                   !.events = started]]
  ELSE IF b.kind = "return"
  THEN finished(caught(onFulfilled(ts, started, n, b.value), n), n)
  ELSE finished(onRejected(ts, started, n, b.value), n)

\* new TestContext({ name, index }): the receiver of the test function.
TestContext(context) == [name |-> context.name, index |-> context.index]

\* A run() that goes on to start and to the call after a refused move.
startedAnyway(r, n, b) ==
  called(r.toms,
         emit(emit(r.log, n, "start", <<>>), n, "(body)",
              <<TestContext([name |-> r.toms[n].name, index |-> r.toms[n].index])>>),
         n, b)

\* this.emit('start') and the call, if the move to in-progress was made; the
\* call is kept in the log with its receiver.
started(r, n, b) ==
  IF r.threw THEN Done(NewRun(n), r, Rejected(r.error))
  ELSE called(r.toms,
              emit(emit(r.log, n, "start", <<>>), n, "(body)",
                   <<TestContext([name |-> r.toms[n].name, index |-> r.toms[n].index])>>),
              n, b)

\* The branch of run() that calls the test function, which behaves as b.
runTest(ts, lg, n, b) ==
  started(Tom_setState(ts, lg, n, "in-progress", TomRef(n), Undefined), n, b)

\* A run() that does not look at the skip mark.
runUnskipped(ts, lg, n, b) ==
  IF TypeOf(ts[n].testFn) # "undefined" THEN runTest(ts, lg, n, b)
  ELSE runIgnored(ts, lg, n)

run(ts, lg, n, b) ==
  IF TypeOf(ts[n].testFn) # "undefined"
  THEN IF ts[n].markedSkip THEN runSkipped(ts, lg, n) ELSE runTest(ts, lg, n, b)
  ELSE runIgnored(ts, lg, n)

(***************************************************************************)
(* The event loop: of the two competitors of a race, the one whose time    *)
(* comes first settles first; races of different runs are not ordered.     *)
(***************************************************************************)
WillSettle(rn) == rn.body = "pending" /\ rn.bodyOut[1] # "never"
BodyDue(rn) == WillSettle(rn) /\ (rn.timer = "armed" => rn.delay <= rn.timeout)
TimerDue(rn) == rn.timer = "armed" /\ (WillSettle(rn) => rn.timeout <= rn.delay)

\* The settled value of the promise the test function returned.
bodyResult(rn) ==
  IF rn.bodyOut[1] = "resolve" THEN Fulfilled(rn.bodyOut[2]) ELSE Rejected(rn.bodyOut[2])

\* The race is decided and r is what the job it queued did. run() settles
\* with it, unless it is the then handler and has thrown: the catch handler
\* is a later job, and run() stays pending until it has run.
decided(r, rn) ==
  [toms |-> r.toms, log |-> r.log,
   run |-> IF r.threw /\ rn.winner = "body" /\ rn.bodyOut[1] = "resolve"
           THEN [rn EXCEPT !.thrown = <<r.error>>, !.events = @ \o r.log]
           ELSE [rn EXCEPT !.outcome = Outcome(r), !.events = @ \o r.log]]

\* The catch handler's job, for what the then handler has thrown.
catches(ts, lg, rn) ==
  LET r == onRejected(ts, lg, rn.node, rn.thrown[1])
  IN [toms |-> r.toms, log |-> r.log,
      run |-> [rn EXCEPT !.outcome = Outcome(r), !.thrown = <<>>, !.events = @ \o r.log]]

\* Not the program: a race whose loser acts as well. The test function's
\* promise runs the handlers on the node whether or not the timeout has
\* already decided the race, run() keeping its outcome. In the program the
\* handlers are chained on the race, which settles once (bodySettles below).
bodySettlesLate(ts, lg, rn) ==
  IF rn.winner = "none"
  THEN decided(Settlement(ts, lg, rn.node, bodyResult(rn)),
               [rn EXCEPT !.body = "settled", !.winner = "body"])
  ELSE LET r == Settlement(ts, lg, rn.node, bodyResult(rn))
       IN [toms |-> r.toms, log |-> r.log,
           run |-> [rn EXCEPT !.body = "settled", !.events = @ \o r.log]]

\* The promise the test function returned settles. It decides the race only
\* if the timeout has not; the chain on the race then runs.
bodySettles(ts, lg, rn) ==
  IF rn.winner = "none"
  THEN decided(Settlement(ts, lg, rn.node, bodyResult(rn)),
               [rn EXCEPT !.body = "settled", !.winner = "body"])
  ELSE [toms |-> ts, log |-> lg, run |-> [rn EXCEPT !.body = "settled"]]

\* A timer whose firing rejects nothing.
timerFiresSilently(ts, lg, rn) ==
  [toms |-> ts, log |-> lg, run |-> [rn EXCEPT !.timer = "fired"]]

\* The timer of raceTimeout fires. It decides the race only if the test
\* function's promise has not.
timerFires(ts, lg, rn) ==
  IF rn.winner = "none"
  THEN decided(Settlement(ts, lg, rn.node, Rejected(raceTimeout(rn.timeout))),
               [rn EXCEPT !.timer = "fired", !.winner = "timer"])
  ELSE [toms |-> ts, log |-> lg, run |-> [rn EXCEPT !.timer = "fired"]]

(***************************************************************************)
(* Running a tree: the trees run() is called on, and what the test         *)
(* functions do.                                                           *)
(***************************************************************************)
MaxRunNodes == 2
MaxRuns == 2
MaxFreeRuns == 1

ShortTimeout == Obj([NoOptions EXCEPT !.timeout = <<150>>])
RunOptions == {Undefined, SkipOption, OnlyOption, ShortTimeout}
RunFns == {Undefined, Fn}
ChildNames == <<"a", "b", "c", "d">>

UserError == Error("Error", "x", Undefined)
Behaviours ==
  {Behaviour("return", "", Undefined, 0), Behaviour("return", "", Num(42), 0),
   Behaviour("throw", "", UserError, 0), Behaviour("promise", "never", Undefined, 0)}
  \cup {Behaviour("promise", "resolve", Num(42), d) : d \in {0, 300}}
  \cup {Behaviour("promise", "reject", UserError, d) : d \in {0, 300}}

\* The trees of up to k nodes: a root and the children added to it by test().
RECURSIVE RunTrees(_)
RunTrees(k) ==
  IF k = 1
  THEN {[toms |-> <<Tom(Str("t"), fn, o)>>, ret |-> Return("new", 1, TomRef(1))] :
          fn \in RunFns, o \in RunOptions}
  ELSE LET smaller == RunTrees(k - 1)
       IN smaller \cup
          UNION {{test(b.toms, p, Str(ChildNames[Len(b.toms)]), fn, o) :
                    p \in 1..Len(b.toms), fn \in RunFns, o \in RunOptions} :
                 b \in {x \in smaller : Len(x.toms) = k - 1}}

Targets == {"pending", "in-progress", "skipped", "ignored", "pass", "fail", "todo"}

\* The step that a call or a callback makes of the nodes and the events.
Hears(d) == listeners' = d.listeners /\ heard' = d.heard /\ log' = d.log
Took(r) ==
  /\ toms' = r.toms
  /\ Hears(emitEach(r.toms, [listeners |-> listeners, heard |-> <<>>, log |-> <<>>], r.log))

Started(r) == Took(r) /\ runs' = Append(runs, r.run)
Continued(k, r) == Took(r) /\ runs' = [runs EXCEPT ![k] = r.run]
Called(op, n, r) ==
  /\ Took(r)
  /\ ret' = IF r.threw THEN Throw(op, n, r.error) ELSE Return(op, n, Undefined)

Run(n, b) ==
  /\ Started(run(toms, <<>>, n, b))
  /\ ret' = Return("run", n, <<"promise", Len(runs) + 1>>)

BodySettles(k) ==
  /\ BodyDue(runs[k])
  /\ Continued(k, bodySettles(toms, <<>>, runs[k]))
  /\ UNCHANGED ret

TimerFires(k) ==
  /\ TimerDue(runs[k])
  /\ Continued(k, timerFires(toms, <<>>, runs[k]))
  /\ UNCHANGED ret

\* The catch handler runs, a job after the then handler that has thrown.
Catches(k) ==
  /\ runs[k].thrown # <<>>
  /\ Continued(k, catches(toms, <<>>, runs[k]))
  /\ UNCHANGED ret

SetState(n, state) ==
  /\ Called("setState", n, Tom_setState(toms, <<>>, n, state, Undefined, Undefined))
  /\ UNCHANGED runs

Reset(n, deep) ==
  /\ Called("reset", n, reset(toms, <<>>, n, deep))
  /\ UNCHANGED runs

\* resetState() called on node n itself: the state only, no index, no marks.
ResetState(n) ==
  /\ Called("resetState", n, resetState(toms, <<>>, n))
  /\ UNCHANGED runs

InitRun ==
  /\ \E b \in RunTrees(MaxRunNodes) : toms = b.toms /\ ret = b.ret
  /\ runs = <<>>
  /\ log = <<>>
  /\ listeners = <<>> /\ heard = <<>>

\* One node, as constructed.
Init ==
  /\ \E b \in RunTrees(1) : toms = b.toms /\ ret = b.ret
  /\ runs = <<>>
  /\ log = <<>>
  /\ listeners = <<>> /\ heard = <<>>

\* The calls and events in any order: at most MaxFreeRuns calls of run().
FreeRun(n, b) == Len(runs) < MaxFreeRuns /\ Run(n, b)

Next ==
  \/ \E n \in Nodes, b \in Behaviours : FreeRun(n, b)
  \/ \E k \in 1..Len(runs) : BodySettles(k)
  \/ \E k \in 1..Len(runs) : TimerFires(k)
  \/ \E n \in Nodes, state \in Targets : SetState(n, state)
  \/ \E n \in Nodes, deep \in BOOLEAN : Reset(n, deep)
  \/ \E n \in Nodes : ResetState(n)
  \/ \E k \in 1..Len(runs) : Catches(k)

Spec == Init /\ [][Next]_vars

(***************************************************************************)
(* The external runner: it calls run() on a node that has no run in flight *)
(* and resets nodes that have no run in flight.  Between run() and the     *)
(* settlement the node stays in-progress, so the then handler's move to    *)
(* pass is valid, the handler does not throw, and the catch handler has    *)
(* no job after it: Catches is never enabled here.                         *)
(***************************************************************************)
InFlight(n) == \E k \in 1..Len(runs) : runs[k].node = n /\ runs[k].outcome = Pending

RunnerRun(n, b) == Len(runs) < MaxRuns /\ ~InFlight(n) /\ Run(n, b)

RunnerReset(n, deep) ==
  /\ \A m \in (IF deep THEN Range(Iterate(toms, n)) ELSE {n}) : ~InFlight(m)
  /\ Reset(n, deep)

NextRun ==
  \/ \E n \in Nodes, b \in Behaviours : RunnerRun(n, b)
  \/ \E k \in 1..Len(runs) : BodySettles(k)
  \/ \E k \in 1..Len(runs) : TimerFires(k)
  \/ \E n \in Nodes, deep \in BOOLEAN : RunnerReset(n, deep)

SpecRun == InitRun /\ [][NextRun]_vars

(***************************************************************************)
(* A family: a root and two nodes below it, siblings or a chain, one of    *)
(* which may be marked only. run() is called on the nodes in any order,    *)
(* on no node with a run in flight, with up to MaxFamilyRuns runs in       *)
(* flight together.                                                        *)
(***************************************************************************)
MaxFamilyRuns == 3

FamilyTrees ==
  {test(test(<<Tom(Str("t"), Fn, Undefined)>>, 1, Str("a"), Fn, Undefined).toms,
        p, Str("b"), Fn, o) : p \in 1..2, o \in {Undefined, OnlyOption}}

FamilyRun(n, b) == Len(runs) < MaxFamilyRuns /\ ~InFlight(n) /\ Run(n, b)

InitFamily ==
  /\ \E b \in FamilyTrees : toms = b.toms /\ ret = b.ret
  /\ runs = <<>>
  /\ log = <<>>
  /\ listeners = <<>> /\ heard = <<>>

NextFamily ==
  \/ \E n \in Nodes, b \in Behaviours : FamilyRun(n, b)
  \/ \E k \in 1..Len(runs) : BodySettles(k)
  \/ \E k \in 1..Len(runs) : TimerFires(k)

SpecFamily == InitFamily /\ [][NextFamily]_vars

(***************************************************************************)
(* Overlapping calls: run() and reset() called on a node at any time, also  *)
(* while a run of the node is in flight.                                    *)
(***************************************************************************)
OverlapRun(n, b) == Len(runs) < MaxRuns /\ Run(n, b)

NextOverlap ==
  \/ \E n \in Nodes, b \in Behaviours : OverlapRun(n, b)
  \/ \E k \in 1..Len(runs) : BodySettles(k)
  \/ \E k \in 1..Len(runs) : TimerFires(k)
  \/ \E k \in 1..Len(runs) : Catches(k)
  \/ \E n \in Nodes, deep \in BOOLEAN : Reset(n, deep)

SpecOverlap == Init /\ [][NextOverlap]_vars

(***************************************************************************)
(* The runner on one node, with the event loop's guarantee: a promise or a  *)
(* timer that is due is eventually run, as long as the process lives. The   *)
(* timer of raceTimeout is unref'd and does not keep it alive.              *)
(***************************************************************************)
\* The process has ended with a timer of raceTimeout that never fired.
Ended == \E k \in 1..Len(runs) : runs[k].timer = "dropped"

\* if (interval.unref) interval.unref(): with no promise that will settle and
\* no job queued, the timers of raceTimeout are all that is left, and the
\* process ends without firing them.
ProcessEnds ==
  /\ \E k \in 1..Len(runs) : runs[k].timer = "armed"
  /\ \A k \in 1..Len(runs) : ~WillSettle(runs[k]) /\ runs[k].thrown = <<>>
  /\ runs' = [k \in 1..Len(runs) |->
                IF runs[k].timer = "armed" THEN [runs[k] EXCEPT !.timer = "dropped"]
                ELSE runs[k]]
  /\ log' = <<>>
  /\ heard' = <<>>
  /\ UNCHANGED <<toms, ret, listeners>>

Settles(k) == k <= Len(runs) /\ (BodySettles(k) \/ TimerFires(k))

NextLive ==
  \/ ~Ended /\ NextRun
  \/ ProcessEnds

SpecLive == Init /\ [][NextLive]_vars /\ \A k \in 1..MaxRuns : WF_vars(Settles(k))

(***************************************************************************)
(* Running nodes that were constructed with the todo option.                *)
(***************************************************************************)
TodoOption == Obj([NoOptions EXCEPT !.todo = <<TRUE>>])

\* A node with the option, with or without a test function, alone or as the
\* child of a plain root.
TodoTrees ==
  {[toms |-> <<Tom(Str("t"), fn, TodoOption)>>, ret |-> Return("new", 1, TomRef(1))] :
     fn \in RunFns}
    \cup {test(<<Tom(Str("t"), Fn, Undefined)>>, 1, Str("a"), fn, TodoOption) :
            fn \in RunFns}

InitTodo ==
  /\ \E b \in TodoTrees : toms = b.toms /\ ret = b.ret
  /\ runs = <<>>
  /\ log = <<>>
  /\ listeners = <<>> /\ heard = <<>>

SpecTodo == InitTodo /\ [][NextRun]_vars

(***************************************************************************)
(* Listening: handlers registered on and removed from the nodes of a       *)
(* three-node tree, and state events propagated from one node to another,  *)
(* while a test runs and nodes are reset.                                  *)
(***************************************************************************)
Handlers == {"f", "g"}
ListenNames == {ALL, "state"}

\* A root, a child, and a third node under either of them.
EmitTrees ==
  {test(test(<<Tom(Str("t"), Fn, Undefined)>>, 1, Str("a"), Fn, Undefined).toms,
        p, Str("b"), Fn, Undefined) : p \in 1..2}

\* What the test functions of these trees do.
EmitBehaviours ==
  {Behaviour("return", "", Num(42), 0), Behaviour("promise", "resolve", Num(42), 0)}

\* on(eventName, handler, { once }) on node n, with a handler not yet in use;
\* on(handler) is the registration under ALL.
On(n, eventName, handler, once) ==
  /\ \A i \in 1..Len(listeners) : listeners[i].handler # handler
  /\ listeners' = Append(listeners, Listener(n, eventName, handler, once))
  /\ heard' = <<>>
  /\ log' = <<>>
  /\ ret' = Return("on", n, Undefined)
  /\ UNCHANGED <<toms, runs>>

\* removeEventListener(eventName, handler) on node n: the first listener of
\* the node with this name and this handler is removed, if there is one.
RemoveEventListener(n, eventName, handler) ==
  /\ listeners' =
       (LET own == listenersOf(listeners, n)
            found == {i \in 1..Len(own) :
                       own[i].eventName = eventName /\ own[i].handler = handler}
        IN IF found = {} THEN listeners
           ELSE SelectSeq(listeners,
                          LAMBDA x : x # own[CHOOSE i \in found : \A j \in found : i <= j]))
  /\ heard' = <<>>
  /\ log' = <<>>
  /\ ret' = Return("removeEventListener", n, Undefined)
  /\ UNCHANGED <<toms, runs>>

\* propagate(eventName, from) on node n: from.on(eventName, handler), with a
\* handler that emits the event on n. One propagation at a time, and not from
\* n or an ancestor of n, whose listeners the emission on n would reach again.
Propagate(n, eventName, from) ==
  /\ \A i \in 1..Len(listeners) : ~IsPropagator(toms, listeners[i].handler)
  /\ from \notin {n} \cup Range(parents(toms, n))
  /\ listeners' = Append(listeners, Listener(from, eventName, Propagator(n), FALSE))
  /\ heard' = <<>>
  /\ log' = <<>>
  /\ ret' = Return("propagate", n, Undefined)
  /\ UNCHANGED <<toms, runs>>

InitEmit ==
  /\ \E b \in EmitTrees : toms = b.toms /\ ret = b.ret
  /\ runs = <<>>
  /\ log = <<>>
  /\ listeners = <<>> /\ heard = <<>>

NextEmit ==
  \/ \E n \in Nodes, eventName \in ListenNames, handler \in Handlers, once \in BOOLEAN :
       On(n, eventName, handler, once)
  \/ \E n \in Nodes, eventName \in ListenNames, handler \in Handlers :
       RemoveEventListener(n, eventName, handler)
  \/ \E n \in Nodes, from \in Nodes : Propagate(n, "state", from)
  \/ \E n \in Nodes, b \in EmitBehaviours : FreeRun(n, b)
  \/ \E k \in 1..Len(runs) : BodySettles(k)
  \/ \E k \in 1..Len(runs) : TimerFires(k)
  \/ RunnerReset(root(toms, 1), TRUE)

SpecEmit == InitEmit /\ [][NextEmit]_vars

(***************************************************************************)
(* Emitting from a handler: listeners are registered and removed, a node   *)
(* propagates the events of another, and emit() is called on the nodes.    *)
(***************************************************************************)
OnceHandlers == {"f"} \cup Emitting
OnceNames == {ALL, "state", Ping}

\* on(eventName, handler, { once }); an emitting handler listens for state
\* events only, so that its own event does not call it again.
Listen(n, eventName, handler, once) ==
  /\ handler \in Emitting => eventName = "state"
  /\ On(n, eventName, handler, once)

\* emit(eventName) on node n
Emit(n, eventName) ==
  /\ Hears(Emitter_emit(toms, [listeners |-> listeners, heard |-> <<>>, log |-> <<>>],
                        n, eventName, <<>>))
  /\ ret' = Return("emit", n, Undefined)
  /\ UNCHANGED <<toms, runs>>

NextOnce ==
  \/ \E n \in Nodes, eventName \in OnceNames, handler \in OnceHandlers, once \in BOOLEAN :
       Listen(n, eventName, handler, once)
  \/ \E n \in Nodes, eventName \in OnceNames, handler \in OnceHandlers :
       RemoveEventListener(n, eventName, handler)
  \/ \E n \in Nodes, eventName \in {"state", Ping}, from \in Nodes :
       Propagate(n, eventName, from)
  \/ \E n \in Nodes, eventName \in {"state", Ping} : Emit(n, eventName)

SpecOnce == InitEmit /\ [][NextOnce]_vars


(***************************************************************************)
(* Resetting: setState() and reset() called in any order on the nodes of a *)
(* three-node tree with marks, which a listener on the root may watch.     *)
(***************************************************************************)
\* A chain of a root, an only child and a skip grandchild; and a root with a
\* skip child and an unmarked child.
ResetTrees ==
  {test(test(<<Tom(Str("t"), Fn, Undefined)>>, 1, Str("a"), Fn, OnlyOption).toms,
        2, Str("b"), Fn, SkipOption),
   test(test(<<Tom(Str("t"), Fn, Undefined)>>, 1, Str("a"), Fn, SkipOption).toms,
        1, Str("b"), Fn, Undefined)}

InitReset ==
  /\ \E b \in ResetTrees : toms = b.toms /\ ret = b.ret
  /\ runs = <<>>
  /\ log = <<>>
  /\ listeners = <<>> /\ heard = <<>>

NextReset ==
  \/ On(root(toms, 1), ALL, "f", FALSE)
  \/ RemoveEventListener(root(toms, 1), ALL, "f")
  \/ \E n \in Nodes, state \in Targets : SetState(n, state)
  \/ \E n \in Nodes, deep \in BOOLEAN : Reset(n, deep)
  \/ \E n \in Nodes : ResetState(n)

SpecReset == InitReset /\ [][NextReset]_vars

(***************************************************************************)
(* Values a caller may pass where a node is expected, and the two checks    *)
(* made of them: validate() and isComposite().                              *)
(***************************************************************************)
Null == <<"null">>

\* An object literal with these own properties, each holding a truthy value.
Shape(keys) == Obj([k \in keys |-> <<TRUE>>])

\* The own enumerable properties the constructor assigns to an instance.
TomKeys ==
  {"name", "testFn", "index", "timeout", "ended", "result", "maxConcurrency",
   "markedSkip", "markedOnly", "options"}

\* Object.keys(value), for a value that is neither null nor undefined.
ObjectKeys(v) ==
  IF v[1] = "tom" THEN TomKeys
  ELSE IF v[1] = "object" THEN {k \in DOMAIN v[2] : v[2][k] # <<>>}
  ELSE {}

ValidKeys == {"name", "testFn", "index", "ended"}

TypeError(message) == Error("TypeError", message, Undefined)

\* The error of validate(): its last element is err.invalidTom.
InvalidTom(tom) == Error("Error", "Valid TOM required", tom)

\* static validate (tom = {})
validate(v) ==
  LET tom == IF v = Undefined THEN Shape({}) ELSE v
  IN IF tom = Null
     THEN Throw("validate", 0, TypeError("Cannot convert undefined or null to object"))
     ELSE IF ValidKeys \subseteq ObjectKeys(tom)
     THEN Return("validate", 0, Undefined)
     ELSE Throw("validate", 0, InvalidTom(tom))

\* The members isComposite() asks for; an instance has them all.
CompositeMembers == {"children", "add", "level", "root"}

isComposite(item) ==
  /\ item \notin {Undefined, Null}
  /\ \A k \in CompositeMembers : item[1] = "tom" \/ k \in ObjectKeys(item)

NotComposite(p) == Throw("add", p, Error("Error", "can only add a Composite instance", Undefined))

\* A node: an instance, with the fields the constructor assigns.
IsTom(ts, n) == "state" \in DOMAIN ts[n]

\* child.parent = this, on an object that is no instance: the object has the
\* property from then on.
WithParent(child) ==
  Obj([k \in DOMAIN child[2] \cup {"parent"} |->
         IF k = "parent" THEN <<TRUE>> ELSE child[2][k]])

\* An object that is no instance, held in the tree: the object and its links.
Held(child) == [object |-> WithParent(child), parent |-> 0, children |-> <<>>]

\* The value that a held node or object is to a caller.
Ref(ts, n) == IF IsTom(ts, n) THEN TomRef(n) ELSE ts[n].object

\* add(child), with its check of the argument. What passes the check is
\* linked, an instance or not.
addChild(ts, p, child) ==
  IF ~isComposite(child)
  THEN [toms |-> ts, ret |-> NotComposite(p)]
  ELSE IF child[1] = "tom"
  THEN [toms |-> add(ts, p, child[2]), ret |-> Return("add", p, child)]
  ELSE [toms |-> add(Append(ts, Held(child)), p, Len(ts) + 1),
        ret |-> Return("add", p, WithParent(child))]

(***************************************************************************)
(* Tom.combine(tests, name)                                                 *)
(***************************************************************************)
Sequential == Obj([NoOptions EXCEPT !.maxConcurrency = <<1>>])

\* for (const subTom of tests) { this.validate(subTom); test.add(subTom) }
RECURSIVE combineEach(_, _, _)
combineEach(r, p, tests) ==
  IF tests = <<>> \/ r.ret.threw THEN r
  ELSE IF validate(Head(tests)).threw
  THEN [toms |-> r.toms, ret |-> validate(Head(tests))]
  ELSE combineEach(addChild(r.toms, p, Head(tests)), p, Tail(tests))

\* The new root stays reachable, through the nodes attached to it, when a
\* later element makes the call fail.
combineFailed(ts, r, p) ==
  [toms |-> IF \E n \in 1..Len(ts) : r.toms[n].parent = p THEN r.toms ELSE ts,
   ret |-> Throw("combine", 0, r.ret.value)]

combineSeveral(ts, r, p) ==
  IF r.ret.threw THEN combineFailed(ts, r, p)
  ELSE IF Loops(r.toms, p) THEN [toms |-> r.toms, ret |-> Throw("combine", 0, RangeError)]
  ELSE [toms |-> skipLogic(r.toms, p), ret |-> Return("combine", 0, TomRef(p))]

combineOne(ts, tom) ==
  IF validate(tom).threw
  THEN [toms |-> ts, ret |-> Throw("combine", 0, validate(tom).value)]
  ELSE IF tom[1] # "tom"
  THEN [toms |-> ts, ret |-> Throw("combine", 0, TypeError("test._skipLogic is not a function"))]
  ELSE IF Loops(ts, tom[2]) THEN [toms |-> ts, ret |-> Throw("combine", 0, RangeError)]
  ELSE [toms |-> skipLogic(ts, tom[2]), ret |-> Return("combine", 0, tom)]

\* A combine that wraps a single node in a new root as well.
combineAlwaysWraps(ts, tests, name) ==
  IF Len(tests) > 0
  THEN combineSeveral(ts,
         combineEach([toms |-> Append(ts, Tom(name, Sequential, Undefined)),
                      ret |-> Return("combine", 0, Undefined)], Len(ts) + 1, tests),
         Len(ts) + 1)
  ELSE combineOne(ts, Undefined)

\* A combine that attaches the nodes and leaves the marks as they are.
combineNoSkipLogic(ts, tests, name) ==
  IF Len(tests) > 1
  THEN LET r == combineEach([toms |-> Append(ts, Tom(name, Sequential, Undefined)),
                             ret |-> Return("combine", 0, Undefined)], Len(ts) + 1, tests)
       IN IF r.ret.threw THEN combineFailed(ts, r, Len(ts) + 1)
          ELSE [toms |-> r.toms, ret |-> Return("combine", 0, TomRef(Len(ts) + 1))]
  ELSE combineOne(ts, IF tests = <<>> THEN Undefined ELSE tests[1])

combine(ts, tests, name) ==
  IF Len(tests) > 1
  THEN combineSeveral(ts,
         combineEach([toms |-> Append(ts, Tom(name, Sequential, Undefined)),
                      ret |-> Return("combine", 0, Undefined)], Len(ts) + 1, tests),
         Len(ts) + 1)
  ELSE combineOne(ts, IF tests = <<>> THEN Undefined ELSE tests[1])

(***************************************************************************)
(* A forest: nodes are constructed, grown by test(), skip() and only(),     *)
(* linked by add(), combined by combine() and checked by validate().        *)
(***************************************************************************)
MaxForest == 3

ForestNames == {Str("a")}
GrowNames == {Undefined}
ForestOptions == {Undefined, OnlyOption}
RootNames == {Undefined, Str("r")}

\* Values that are not nodes.
Foreign == {Undefined, Null, Shape(ValidKeys), Shape({"name", "index"})}
HalfComposite == Shape({"children", "add", "level"})

Roots == {n \in Nodes : toms[n].parent = 0}

Candidates == {TomRef(n) : n \in Nodes} \cup Foreign

\* The arrays combine() is called with: no value, any one value, or two
\* values, the roots of different trees or a value that is not a node.
TestArrays ==
  {<<>>} \cup {<<v>> : v \in Candidates}
    \cup ({<<v, w>> : v, w \in {TomRef(n) : n \in Roots} \cup {Shape({"name", "index"})}}
            \ {<<v, v>> : v \in Candidates})

Did(r) ==
  /\ toms' = r.toms
  /\ ret' = r.ret
  /\ log' = <<>>
  /\ UNCHANGED <<runs, listeners, heard>>

New(name, testFn, options) ==
  /\ Len(toms) < MaxForest
  /\ Did([toms |-> Append(toms, Tom(name, testFn, options)),
          ret |-> Return("new", Len(toms) + 1, TomRef(Len(toms) + 1))])

Grow(p, name) ==
  /\ Len(toms) < MaxForest
  /\ \/ Did(test(toms, p, name, Fn, Undefined))
     \/ Did(skip(toms, p, name, Fn, Undefined))
     \/ Did(only(toms, p, name, Fn, Undefined))

\* add(child) on node p, with any value.
Add(p, child) == Did(addChild(toms, p, child))

\* The caller that builds a forest adds a value; a node it adds is the root
\* of another tree.
AddRoot(p, child) ==
  /\ child[1] = "tom" => child[2] \in Roots /\ root(toms, p) # child[2]
  /\ Add(p, child)

\* The call is made with room for the one root it may add to a full forest.
Combine(tests, name) ==
  /\ Len(tests) > 1 => Len(toms) <= MaxForest
  /\ Did(combine(toms, tests, name))

Validate(v) == Did([toms |-> toms, ret |-> validate(v)])

InitForest ==
  /\ toms = <<>>
  /\ runs = <<>>
  /\ log = <<>>
  /\ listeners = <<>> /\ heard = <<>>
  /\ ret = Return("", 0, Undefined)

NextForest ==
  \/ \E name \in ForestNames, options \in ForestOptions : New(name, Fn, options)
  \/ \E p \in Nodes, name \in GrowNames : Grow(p, name)
  \/ \E p \in Nodes, child \in Candidates \cup {HalfComposite} : AddRoot(p, child)
  \/ \E tests \in TestArrays, name \in RootNames : Combine(tests, name)
  \/ \E v \in Candidates : Validate(v)

SpecForest == InitForest /\ [][NextForest]_vars

(***************************************************************************)
(* Links edited by hand: add() of any node, remove(), and the setters of    *)
(* parent and children, on a root and its child; test() and combine() on    *)
(* what they leave.                                                         *)
(***************************************************************************)
MaxLinked == 2
MaxChildren == 3

\* An object literal with the four members isComposite() asks for and no
\* parent: { children: [], add () {}, level () {}, root () {} }
BareComposite == Shape(CompositeMembers)

\* The instances among the nodes, the receivers of the calls.
Toms == {n \in Nodes : IsTom(toms, n)}

\* Every child of every instance is an instance: test() and combine() are
\* called on such trees only.
Kept == \A n \in Toms : \A c \in Range(toms[n].children) : c \in Toms

LinkCandidates ==
  {TomRef(n) : n \in Toms} \cup Foreign \cup {HalfComposite, BareComposite}

Arr(s) == <<"array", s>>

\* remove(child): this.children.splice(this.children.indexOf(child), 1). A
\* value that is no child has index -1, and splice(-1, 1) removes the last
\* child. The parent link of the removed node stays.
removeChild(ts, p, child) ==
  LET cs == ts[p].children
      found == {i \in 1..Len(cs) : child = Ref(ts, cs[i])}
      at == IF found = {} THEN Len(cs) ELSE CHOOSE i \in found : \A j \in found : i <= j
  IN IF cs = <<>> THEN [toms |-> ts, ret |-> Return("remove", p, Arr(<<>>))]
     ELSE [toms |-> [ts EXCEPT ![p].children =
                       [i \in 1..(Len(cs) - 1) |-> IF i < at THEN cs[i] ELSE cs[i + 1]]],
           ret |-> Return("remove", p, Arr(<<Ref(ts, cs[at])>>))]

Remove(p, child) == Did(removeChild(toms, p, child))

\* append(child) and prepend(child): child instanceof Composite holds for no
\* node, whose class has the members of Composite mixed in, and for no other
\* value a caller has.
Append_(p, child) ==
  Did([toms |-> toms,
       ret |-> Throw("append", p, Error("Error", "can only add a Composite instance", Undefined))])

Prepend(p, child) ==
  Did([toms |-> toms,
       ret |-> Throw("prepend", p, Error("Error", "can only add a Composite instance", Undefined))])

\* node.parent = v, with a node or undefined
SetParent(n, v) ==
  Did([toms |-> [toms EXCEPT ![n].parent = IF v = Undefined THEN 0 ELSE v[2]],
       ret |-> Return("parent=", n, v)])

\* node.children = [...], with an array of nodes
SetChildren(n, cs) ==
  Did([toms |-> [toms EXCEPT ![n].children = cs],
       ret |-> Return("children=", n, Arr([i \in 1..Len(cs) |-> TomRef(cs[i])]))])

ChildArrays == UNION {[1..k -> Toms] : k \in 0..MaxChildren}

\* add() with room in the receiver's children for what it may append; one
\* object that is no instance at most.
AddLinked(p, child) ==
  /\ isComposite(child) => Len(toms[p].children) < MaxChildren
  /\ child = BareComposite => Toms = Nodes
  /\ Add(p, child)

\* test() with room for the node it may add.
GrowLinked(p, name) ==
  /\ Kept
  /\ Len(toms) < MaxLinked \/ ChildLoop(toms, p) \/ DuplicateName(toms, p, name)
  /\ Did(test(toms, p, name, Fn, Undefined))

CombineLinked(n) == Kept /\ Combine(<<TomRef(n)>>, Undefined)

InitLinks ==
  /\ toms = test(<<Tom(Str("t"), Fn, Undefined)>>, 1, Str("a"), Fn, Undefined).toms
  /\ ret = Return("test", 1, TomRef(2))
  /\ runs = <<>>
  /\ log = <<>>
  /\ listeners = <<>> /\ heard = <<>>

NextLinks ==
  \/ \E p \in Toms, child \in LinkCandidates : AddLinked(p, child)
  \/ \E p \in Toms, child \in {TomRef(n) : n \in Toms} \cup {Undefined} : Remove(p, child)
  \/ \E p \in Toms, child \in LinkCandidates : Append_(p, child)
  \/ \E p \in Toms, child \in LinkCandidates : Prepend(p, child)
  \/ \E n \in Toms, v \in {TomRef(m) : m \in Toms} \cup {Undefined} : SetParent(n, v)
  \/ \E n \in Toms, cs \in ChildArrays : SetChildren(n, cs)
  \/ \E p \in Toms, name \in {Undefined, Str("a")} : GrowLinked(p, name)
  \/ \E n \in Toms : CombineLinked(n)

SpecLinks == InitLinks /\ [][NextLinks]_vars

(***************************************************************************)
(* Construction: new Tom(...) called with a name, a test function and an    *)
(* options object, any of them omitted, in every order.                     *)
(***************************************************************************)
Custom == Obj([NoOptions EXCEPT !.timeout = <<150>>, !.maxConcurrency = <<2>>, !.skip = <<TRUE>>])
ArgOptions == {OnlyOption, Custom}
ArgValues == {Str("a"), Fn} \cup ArgOptions

\* An argument list, with undefined in the places after its last argument.
Pad(args) == [i \in 1..3 |-> IF i <= Len(args) THEN args[i] ELSE Undefined]

Injective(args) == \A i, j \in 1..Len(args) : i # j => args[i] # args[j]
OneOptions(args) == Cardinality({i \in 1..Len(args) : args[i] \in ArgOptions}) <= 1

\* Each kind of argument at most once, in every order.
ArgLists ==
  {args \in UNION {[1..k -> ArgValues] : k \in 0..3} : Injective(args) /\ OneOptions(args)}

Constructed(args) == New(Pad(args)[1], Pad(args)[2], Pad(args)[3])

NextNew == \E args \in ArgLists : Constructed(args)

SpecNew == InitForest /\ [][NextNew]_vars

(***************************************************************************)
(* Properties of a tree under construction (SpecTree).                     *)
(***************************************************************************)
ExplicitSkip(n) == toms[n].options.skip = <<TRUE>>
ExplicitOnly(n) == toms[n].options.only = <<TRUE>>
EffectiveSkip(n) == toms[n].markedSkip
MarkedOnly(n) == toms[n].markedOnly
OnlyInTree == \E n \in Nodes : MarkedOnly(n)
Inserted == Len(toms) > 1

\* A call of test, skip or only on p with this name, whatever the options.
Call(p, name) ==
  \/ \E options \in MarkOptions : Test(p, name, options)
  \/ \E options \in {Undefined, OnlyOption} : Skip(p, name, options)
  \/ \E options \in {Undefined, SkipOption} : Only(p, name, options)

ChildNamed(p, name) ==
  \E c \in Range(toms[p].children) : StrictEqualsName(toms[c].name, name)
ThrewDuplicate(r, p, name) ==
  r = Throw("test", p, Error("Error", "Duplicate name: ", name))

\* C2: only-wins. If any node of the tree is marked only, every node not
\* marked only is effectively skipped, and every node marked only that has no
\* explicit skip mark is not, after any insertions in any order.
C2_OnlyWins ==
  OnlyInTree =>
    \A n \in Nodes :
      /\ ~MarkedOnly(n) => EffectiveSkip(n)
      /\ MarkedOnly(n) /\ ~ExplicitSkip(n) => ~EffectiveSkip(n)

\* An only node inserted below a plain root, with a plain node inserted before
\* it and elsewhere: root, then a plain child, then an only grandchild.
C2_Witness ==
  /\ Len(toms) = 3
  /\ ~MarkedOnly(1) /\ ~MarkedOnly(2) /\ MarkedOnly(3) /\ ~ExplicitSkip(3)
  /\ toms[3].parent = 2
  /\ EffectiveSkip(1) /\ EffectiveSkip(2) /\ ~EffectiveSkip(3)

\* C3 (as claimed): a node created with an explicit skip mark and an only mark
\* is effectively skipped once skip/only resolution has run.
C3_SkipForcesOnOnly ==
  \A n \in Nodes : Inserted /\ ExplicitSkip(n) /\ ExplicitOnly(n) => EffectiveSkip(n)

\* C4: with no only mark anywhere in the tree, every node's effective skip is
\* its own explicit skip mark, whatever the marks of the nodes around it.
C4_SkipIsOwnMark ==
  ~OnlyInTree => \A n \in Nodes : EffectiveSkip(n) = ExplicitSkip(n)

\* A skip-marked node between a plain parent and a plain child of its own.
C4_Witness ==
  /\ Len(toms) = 3 /\ ~OnlyInTree
  /\ toms[2].parent = 1 /\ toms[3].parent = 2
  /\ ~EffectiveSkip(1) /\ ExplicitSkip(2) /\ EffectiveSkip(2) /\ ~EffectiveSkip(3)

\* C5: a call of test, skip or only with a name that a direct child of the
\* receiver already has throws the duplicate-name error and changes no node.
C5_DuplicateChildFails ==
  [][\A p \in Nodes, name \in Names :
       ChildNamed(p, name) /\ Call(p, name) =>
         ThrewDuplicate(ret', p, name) /\ toms' = toms]_vars

\* The second insertion of a child name has just failed.
C5_Witness ==
  /\ ret.threw /\ ret.op = "test"
  /\ \E name \in Names : ThrewDuplicate(ret, ret.node, name) /\ ChildNamed(ret.node, name)

\* C6 (as claimed): test() throws the duplicate-name error only if a direct
\* child of the receiver already has the name.
C6_FailsOnlyOnDirectChild ==
  [][\A p \in Nodes, name \in Names :
       Call(p, name) /\ ThrewDuplicate(ret', p, name) => ChildNamed(p, name)]_vars

\* C22: a successful test, skip or only call returns the newly created child,
\* never the receiver; the child is the last of the receiver's children, which
\* are otherwise as before, its parent is the receiver, and its index is its
\* 1-based position, the receiver's child count after the insertion.
C22_ReturnsNewChild ==
  [][\A p \in Nodes, name \in Names :
       Call(p, name) /\ ~ret'.threw =>
         LET c == Len(toms) + 1
         IN /\ Len(toms') = c
            /\ ret'.value = TomRef(c) /\ ret'.value # TomRef(p)
            /\ toms'[p].children = Append(toms[p].children, c)
            /\ toms'[c].parent = p
            /\ toms'[c].index = Len(toms'[p].children)]_vars

\* The second child of the root has just been returned, with index 2.
C22_Witness ==
  /\ Len(toms) = 3 /\ ret = Return("test", 1, TomRef(3))
  /\ toms[1].children = <<2, 3>> /\ toms[3].parent = 1 /\ toms[3].index = 2

\* How often c is in the children list of p.
TimesChildOf(c, p) == Cardinality({i \in 1..Len(toms[p].children) : toms[p].children[i] = c})

\* The nodes that have n below them, by their children lists.
Ancestors(n) == {a \in Nodes : a # n /\ n \in Range(Iterate(toms, a))}

\* C40: after any insertions by test, skip and only from one root, the links
\* form a tree: every node but the root is in the children of exactly one
\* node, once, and that node is its parent; the root is no one's child; the
\* parent links have no cycle and lead every node to the same root; level() of
\* a node is the number of its ancestors and parents() lists them.
C40_LinksFormTree ==
  /\ toms[1].parent = 0 /\ \A p \in Nodes : TimesChildOf(1, p) = 0
  /\ \A n \in Nodes \ {1} :
       /\ toms[n].parent \in Nodes \ {n}
       /\ \A p \in Nodes : TimesChildOf(n, p) = IF p = toms[n].parent THEN 1 ELSE 0
  /\ \A n \in Nodes :
       /\ n \notin Range(parents(toms, n))
       /\ root(toms, n) = 1
       /\ level(toms, n) = Cardinality(Ancestors(n))
       /\ Range(parents(toms, n)) = Ancestors(n)

\* A chain of three nodes: the last node is at level 2.
C40_Witness ==
  /\ Len(toms) = 3 /\ toms[2].parent = 1 /\ toms[3].parent = 2
  /\ toms[1].children = <<2>> /\ toms[2].children = <<3>>
  /\ level(toms, 3) = 2 /\ parents(toms, 3) = <<2, 1>>

(***************************************************************************)
(* Properties of the state machine under any calls (Spec).                 *)
(***************************************************************************)
DeclaredEdges ==
  {<<"pending", "in-progress">>, <<"pending", "skipped">>, <<"pending", "ignored">>,
   <<"in-progress", "pass">>, <<"in-progress", "fail">>}

\* The state changes of node n that the events of the step report: a state
\* event carries the new and the previous state, a reset event the previous.
StateEvents(n) == SelectSeq(log', LAMBDA e : e.target = n /\ e.name \in {"state", "reset"})
MoveFrom(e) == IF e.name = "state" THEN e.args[2][2] ELSE e.args[1][2]
MoveTo(e) == IF e.name = "state" THEN e.args[1][2] ELSE InitialState

\* Every change of a node's state in the step is reported by an event, the
\* changes follow one another from the state before the step to the state
\* after it, and each one that is not a reset goes along a declared edge.
AlongDeclaredEdges ==
  \A n \in Nodes :
    LET evs == StateEvents(n)
    IN /\ toms'[n].state = IF evs = <<>> THEN toms[n].state ELSE MoveTo(evs[Len(evs)])
       /\ \A i \in 1..Len(evs) :
            /\ MoveFrom(evs[i]) = IF i = 1 THEN toms[n].state ELSE MoveTo(evs[i - 1])
            /\ evs[i].name = "state" => <<MoveFrom(evs[i]), MoveTo(evs[i])>> \in DeclaredEdges

Refused(n) ==
  /\ ret'.threw /\ ret'.op = "setState" /\ ret'.node = n /\ IsInvalidMove(ret'.value)
  /\ toms'[n].state = toms[n].state

\* C1 (as claimed): the state changes only along the declared edges (and back
\* to pending by a reset), and a setState request for any other pair
\* (current, target) throws the invalid-move error and leaves the state as it is.
C1_EveryOtherPairFails ==
  [][/\ AlongDeclaredEdges
     /\ \A n \in Nodes, s \in Targets :
          SetState(n, s) /\ <<toms[n].state, s>> \notin DeclaredEdges => Refused(n)]_vars

\* C1 (amended): the state changes only along the declared edges (and back to
\* pending by a reset); a setState request for any other pair whose target
\* differs from the current state throws the invalid-move error and leaves the
\* state as it is; a request for the current state returns without an error
\* and leaves the state as it is.
C1_OtherMovesFail ==
  [][/\ AlongDeclaredEdges
     /\ \A n \in Nodes, s \in Targets :
          SetState(n, s) =>
            IF <<toms[n].state, s>> \in DeclaredEdges
            THEN ~ret'.threw /\ toms'[n].state = s
            ELSE IF s = toms[n].state
            THEN ~ret'.threw /\ toms'[n].state = toms[n].state
            ELSE Refused(n)]_vars

\* A request has just been refused on a node that a run had moved to pass.
C1_Witness ==
  /\ ret.op = "setState" /\ ret.threw /\ IsInvalidMove(ret.value)
  /\ toms[ret.node].state = "pass"
  /\ \E k \in 1..Len(runs) : runs[k].node = ret.node /\ runs[k].invoked

(***************************************************************************)
(* Properties of runs made by the external runner (SpecRun).               *)
(***************************************************************************)
RunIds == 1..Len(runs)
Observed == {"start", "(body)", "pass", "fail", "end"}

\* The names of the events in evs that node n emitted and that are in S.
EventNames(evs, n, S) ==
  LET sel == SelectSeq(evs, LAMBDA e : e.target = n /\ e.name \in S)
  IN [i \in 1..Len(sel) |-> sel[i].name]

TimeoutError(ms) == Error("Error", "Timeout expired", Num(ms))

\* C7: timeout law. When the timer fires while the promise the body returned
\* has not settled, run() rejects with the error that names the node's
\* timeout and the node's state becomes fail; whatever the run does later,
\* it does not change that state, so it never becomes pass for that run.
C7_TimeoutLaw ==
  [][\A k \in RunIds :
       LET n == runs[k].node
       IN /\ (runs[k].timer = "armed" /\ runs'[k].timer = "fired"
                /\ runs[k].body = "pending") =>
               /\ runs'[k].outcome = Rejected(TimeoutError(toms[n].timeout))
               /\ toms'[n].state = "fail"
          /\ (runs[k].winner = "timer" /\ runs'[k] # runs[k]) =>
               toms'[n].state = toms[n].state]_vars

\* A body that settled after 300 ms, on a node whose 150 ms timeout had
\* already failed the run.
C7_Witness ==
  \E k \in RunIds :
    /\ runs[k].winner = "timer" /\ runs[k].timeout = 150 /\ runs[k].delay = 300
    /\ runs[k].body = "settled"
    /\ runs[k].outcome = Rejected(TimeoutError(150))
    /\ toms[runs[k].node].state = "fail"

\* C8: the first competitor to settle decides the outcome of run() and the
\* terminal state; the later settlement of the other one changes no node,
\* emits no event and leaves the outcome of run() as it was.
C8_FirstSettlementDecides ==
  [][\A k \in RunIds :
       LET n == runs[k].node
           was == runs[k]
           is == runs'[k]
       IN /\ (was.winner = "none" /\ is.winner = "body") =>
               IF was.bodyOut[1] = "resolve"
               THEN /\ is.outcome = Fulfilled(was.bodyOut[2])
                    /\ toms'[n].state = "pass" /\ toms'[n].result = was.bodyOut[2]
               ELSE /\ is.outcome = Rejected(was.bodyOut[2])
                    /\ toms'[n].state = "fail"
          /\ (was.winner = "none" /\ is.winner = "timer") =>
               /\ is.outcome = Rejected(TimeoutError(toms[n].timeout))
               /\ toms'[n].state = "fail"
          /\ (was.winner # "none" /\ is # was) =>
               /\ toms' = toms /\ log' = <<>>
               /\ is.outcome = was.outcome /\ is.winner = was.winner
               /\ is.events = was.events]_vars

\* A timer that fired after the body had passed the run.
C8_Witness ==
  \E k \in RunIds :
    /\ runs[k].winner = "body" /\ runs[k].timer = "fired"
    /\ runs[k].outcome = Fulfilled(Num(42))
    /\ toms[runs[k].node].state = "pass" /\ toms[runs[k].node].ended

\* C9: event order of a run that calls the body. Of start, pass, fail and
\* end, the node emits start before the body is called and nothing more while
\* the race is undecided; a run that passed has emitted exactly start, pass,
\* end and a run that failed exactly start, fail, end, the terminal event and
\* end with the settlement.
C9_EventOrder ==
  \A k \in RunIds :
    runs[k].invoked =>
      LET seen == EventNames(runs[k].events, runs[k].node, Observed)
      IN IF runs[k].outcome = Pending THEN seen = <<"start", "(body)">>
         ELSE IF runs[k].outcome[1] = "fulfilled"
         THEN seen = <<"start", "(body)", "pass", "end">>
         ELSE seen = <<"start", "(body)", "fail", "end">>

\* A run failed by its timeout and a run passed by its body's promise.
C9_Witness ==
  /\ \E k \in RunIds :
       /\ runs[k].invoked /\ runs[k].winner = "timer"
       /\ EventNames(runs[k].events, runs[k].node, Observed)
            = <<"start", "(body)", "fail", "end">>
  /\ \E k \in RunIds :
       /\ runs[k].invoked /\ runs[k].winner = "body" /\ runs[k].outcome[1] = "fulfilled"
       /\ EventNames(runs[k].events, runs[k].node, Observed)
            = <<"start", "(body)", "pass", "end">>

\* C10: run() on a pending node that has a test function and is effectively
\* skipped moves it to skipped, resolves with undefined, does not call the
\* test function, leaves ended false and the result as it was, and emits the
\* skipped event and none of start, pass, fail, end.
C10_SkippedRun ==
  [][\A n \in Nodes :
       (/\ Len(runs') = Len(runs) + 1 /\ runs'[Len(runs')].node = n
        /\ toms[n].state = "pending" /\ TypeOf(toms[n].testFn) = "function"
        /\ toms[n].markedSkip) =>
         LET new == runs'[Len(runs')]
         IN /\ toms'[n].state = "skipped"
            /\ new.outcome = Fulfilled(Undefined)
            /\ ~new.invoked
            /\ ~toms'[n].ended /\ toms'[n].result = toms[n].result
            /\ EventNames(log', n, Observed \cup {"skipped"}) = <<"skipped">>
            /\ new.events = log']_vars

\* A node with a test function, skipped by the only mark of another node, has
\* been run.
C10_Witness ==
  \E k \in RunIds :
    LET n == runs[k].node
    IN /\ ~runs[k].invoked /\ runs[k].outcome = Fulfilled(Undefined)
       /\ toms[n].state = "skipped" /\ toms[n].markedSkip /\ ~ExplicitSkip(n)
       /\ TypeOf(toms[n].testFn) = "function" /\ ~toms[n].ended

\* The run() call the step has made, if it has made one on node n.
RunCalled(n) == Len(runs') = Len(runs) + 1 /\ runs'[Len(runs')].node = n
NewestRun == runs'[Len(runs')]
AllNames(evs, n) == EventNames(evs, n, {evs[i].name : i \in 1..Len(evs)})

\* C11: run() on a pending node without a test function moves it to ignored
\* and resolves with undefined; ended stays false, the test function is not
\* called and none of start, skip(ped), pass, fail, end is emitted: the node
\* emits the state event and the ignored event only.
C11_IgnoredRun ==
  [][\A n \in Nodes :
       (RunCalled(n) /\ toms[n].state = "pending"
          /\ TypeOf(toms[n].testFn) = "undefined") =>
         /\ toms'[n].state = "ignored"
         /\ NewestRun.outcome = Fulfilled(Undefined)
         /\ ~NewestRun.invoked
         /\ ~toms'[n].ended /\ toms'[n].result = Undefined
         /\ AllNames(log', n) = <<"state", "ignored">>]_vars

\* A node without a test function, marked skip, has been run and is ignored.
C11_Witness ==
  \E k \in RunIds :
    LET n == runs[k].node
    IN /\ TypeOf(toms[n].testFn) = "undefined" /\ toms[n].markedSkip
       /\ toms[n].state = "ignored" /\ ~toms[n].ended
       /\ runs[k].outcome = Fulfilled(Undefined)
       /\ AllNames(runs[k].events, n) = <<"state", "ignored">>

\* The moves of node n that the state events of the step report, in order.
Moves(n) ==
  LET evs == SelectSeq(log', LAMBDA e : e.target = n /\ e.name = "state")
  IN [i \in 1..Len(evs) |-> <<MoveFrom(evs[i]), MoveTo(evs[i])>>]

Runnable(n) ==
  toms[n].state = "pending" /\ TypeOf(toms[n].testFn) = "function" /\ ~toms[n].markedSkip

\* The step in which the promise the test function returned decides run k.
BodyDecides(k) == runs[k].winner = "none" /\ runs'[k].winner = "body"

\* C12: on a pending node that is not effectively skipped, a test function
\* that returns v makes run() resolve with v, the node going through
\* in-progress to pass, ended true and the stored result v; a test function
\* that returns a promise leaves the node in-progress, and when the promise is
\* fulfilled with v before the timeout, run() resolves with v and the node is
\* in pass, ended, with the stored result v.
C12_PassingRun ==
  [][/\ \A n \in Nodes, b \in Behaviours :
          RunnerRun(n, b) /\ Runnable(n) =>
            /\ b.kind = "return" =>
                 /\ NewestRun.outcome = Fulfilled(b.value)
                 /\ Moves(n) = << <<"pending", "in-progress">>, <<"in-progress", "pass">> >>
                 /\ toms'[n].state = "pass" /\ toms'[n].ended
                 /\ toms'[n].result = b.value
            /\ b.kind = "promise" =>
                 /\ NewestRun.outcome = Pending
                 /\ Moves(n) = << <<"pending", "in-progress">> >>
                 /\ toms'[n].state = "in-progress"
     /\ \A k \in RunIds :
          BodyDecides(k) /\ runs[k].bodyOut[1] = "resolve" =>
            LET n == runs[k].node
                v == runs[k].bodyOut[2]
            IN /\ runs'[k].outcome = Fulfilled(v)
               /\ Moves(n) = << <<"in-progress", "pass">> >>
               /\ toms'[n].state = "pass" /\ toms'[n].ended
               /\ toms'[n].result = v]_vars

\* Two runs have resolved with 42: one whose test function returned it and
\* one whose test function returned a promise fulfilled with it.
C12_Witness ==
  \E j, k \in RunIds :
    /\ runs[j].invoked /\ runs[j].body = "none" /\ runs[j].outcome = Fulfilled(Num(42))
    /\ runs[k].winner = "body" /\ runs[k].outcome = Fulfilled(Num(42))
    /\ \A i \in {j, k} :
         LET n == runs[i].node
         IN toms[n].state = "pass" /\ toms[n].ended /\ toms[n].result = Num(42)

\* C13: on a pending node that is not effectively skipped, a test function
\* that throws e makes run() reject with e, the node going through in-progress
\* to fail with ended true; when the promise a test function returned rejects
\* with e before the timeout, run() rejects with e and the node, in-progress
\* until then, is in fail with ended true.
C13_FailingRun ==
  [][/\ \A n \in Nodes, b \in Behaviours :
          RunnerRun(n, b) /\ Runnable(n) /\ b.kind = "throw" =>
            /\ NewestRun.outcome = Rejected(b.value)
            /\ Moves(n) = << <<"pending", "in-progress">>, <<"in-progress", "fail">> >>
            /\ toms'[n].state = "fail" /\ toms'[n].ended
     /\ \A k \in RunIds :
          BodyDecides(k) /\ runs[k].bodyOut[1] = "reject" =>
            LET n == runs[k].node
                e == runs[k].bodyOut[2]
            IN /\ runs'[k].outcome = Rejected(e)
               /\ Moves(n) = << <<"in-progress", "fail">> >>
               /\ toms'[n].state = "fail" /\ toms'[n].ended]_vars

\* Two runs have rejected with the error of the test function: one that threw
\* it and one that returned a promise rejected with it.
C13_Witness ==
  \E j, k \in RunIds :
    /\ runs[j].invoked /\ runs[j].body = "none" /\ runs[j].outcome = Rejected(UserError)
    /\ runs[k].winner = "body" /\ runs[k].outcome = Rejected(UserError)
    /\ \A i \in {j, k} : toms[runs[i].node].state = "fail" /\ toms[runs[i].node].ended

\* The step in which run k, on a node now in fail, rejects.
RunFails(k) ==
  /\ (k > Len(runs) \/ runs[k].outcome = Pending)
  /\ runs'[k].outcome[1] = "rejected" /\ toms'[runs'[k].node].state = "fail"

\* C14 (as claimed): when a run ends in fail (the test function threw, its
\* promise rejected, or the timeout expired), the value stored on the node is
\* the error with which run() rejects.
C14_ErrorStored ==
  [][\A k \in 1..Len(runs') :
       RunFails(k) => Rejected(toms'[runs'[k].node].result) = runs'[k].outcome]_vars

\* Reading a property of an instance: undefined unless it has been assigned.
Property(t, key) == IF key \in DOMAIN t THEN t[key] ELSE Undefined

\* The receiver the test function of run k was called with.
Receiver(k) ==
  LET calls == SelectSeq(runs[k].events, LAMBDA e : e.name = "(body)")
  IN calls[1].args[1]

\* C28 (as claimed): the execution context built for a run, with the node's
\* name and index, is retained on the node: once run() has called the test
\* function, node.context is the receiver the function was called with.
C28_ContextRetained ==
  \A k \in RunIds :
    runs[k].invoked =>
      /\ Receiver(k).name = toms[runs[k].node].name
      /\ Property(toms[runs[k].node], "context") = Receiver(k)

HasBody(n) == TypeOf(toms[n].testFn) # "undefined"

\* Run k has taken a step: the call of run(), or a continuation of its race.
Stepped(k) == k > Len(runs) \/ runs'[k] # runs[k]

\* C31: a run changes only the state, the ended flag and the result of its
\* own node: under any interleaving of runs of different nodes of a tree, no
\* step of a run changes any field of another node, nor the index, the marks
\* or the children of its own.
C31_RunFrame ==
  [][\A k \in 1..Len(runs') :
       Stepped(k) =>
         /\ Len(toms') = Len(toms)
         /\ \A m \in Nodes \ {runs'[k].node} : toms'[m] = toms[m]
         /\ toms'[runs'[k].node] =
              [toms[runs'[k].node] EXCEPT
                 !.state = toms'[runs'[k].node].state,
                 !.ended = toms'[runs'[k].node].ended,
                 !.result = toms'[runs'[k].node].result]]_vars

\* The runs of two siblings and of their parent were in flight together: the
\* second sibling's has passed with 42, while the first sibling and the
\* parent are still in progress, without a result.
C31_Witness ==
  /\ Len(runs) = 3 /\ runs[1].node = 2 /\ runs[2].node = 1 /\ runs[3].node = 3
  /\ toms[2].parent = 1 /\ toms[3].parent = 1
  /\ runs[1].outcome = Pending /\ runs[2].outcome = Pending
  /\ \A n \in {1, 2} :
       toms[n].state = "in-progress" /\ toms[n].result = Undefined /\ ~toms[n].ended
  /\ runs[3].outcome = Fulfilled(Num(42)) /\ runs[3].winner = "body"
  /\ toms[3].state = "pass" /\ toms[3].result = Num(42) /\ toms[3].ended

\* C33: run() on a node that is in state skipped or ignored, called again
\* without a reset, completes successfully with no value; the test function
\* is not called, no event is emitted, and the node is as before.
C33_RerunSkippedOrIgnored ==
  [][\A n \in Nodes, b \in Behaviours :
       toms[n].state \in {"skipped", "ignored"} /\ RunnerRun(n, b) =>
         /\ NewestRun.outcome = Fulfilled(Undefined)
         /\ ~NewestRun.invoked
         /\ log' = <<>>
         /\ toms'[n] = toms[n]]_vars

\* A skipped node that has a test function has been run twice, and both
\* runs have completed with no value.
C33_Witness ==
  /\ Len(runs) = 2 /\ runs[1].node = runs[2].node
  /\ toms[runs[1].node].state = "skipped" /\ HasBody(runs[1].node)
  /\ ~toms[runs[1].node].ended /\ toms[runs[1].node].result = Undefined
  /\ \A k \in {1, 2} : runs[k].outcome = Fulfilled(Undefined) /\ ~runs[k].invoked
  /\ log = <<>>

\* C39: run() on a node that has a test function and is in state pass or
\* fail, called again without a reset, fails with an invalid-move error; the
\* test function is not called, no event is emitted, and the node's state,
\* ended flag and result are as before.
C39_RerunAfterEnd ==
  [][\A n \in Nodes, b \in Behaviours :
       toms[n].state \in {"pass", "fail"} /\ HasBody(n) /\ RunnerRun(n, b) =>
         /\ NewestRun.outcome[1] = "rejected" /\ IsInvalidMove(NewestRun.outcome[2])
         /\ ~NewestRun.invoked
         /\ log' = <<>> /\ heard' = <<>>
         /\ toms'[n].state = toms[n].state
         /\ toms'[n].ended = toms[n].ended
         /\ toms'[n].result = toms[n].result]_vars

\* The second run of a node that passed with 42 has been refused.
C39_Witness ==
  /\ Len(runs) = 2 /\ runs[1].node = runs[2].node
  /\ runs[1].outcome = Fulfilled(Num(42)) /\ runs[1].invoked
  /\ runs[2].outcome[1] = "rejected" /\ IsInvalidMove(runs[2].outcome[2]) /\ ~runs[2].invoked
  /\ toms[runs[2].node].state = "pass" /\ toms[runs[2].node].result = Num(42)
  /\ toms[runs[2].node].ended

(***************************************************************************)
(* Properties of runs of nodes with the todo option (SpecTodo).             *)
(***************************************************************************)
TodoMarked(n) == toms[n].options.todo = <<TRUE>>

\* C29 (as claimed): run() on a pending node that carries the todo mark moves
\* the node to the state todo and completes successfully without calling the
\* test function, whether or not the node has one.
C29_TodoRun ==
  [][\A n \in Nodes, b \in Behaviours :
       TodoMarked(n) /\ toms[n].state = "pending" /\ RunnerRun(n, b) =>
         /\ toms'[n].state = "todo"
         /\ ~NewestRun.invoked
         /\ NewestRun.outcome = Fulfilled(Undefined)]_vars

(***************************************************************************)
(* Properties of listening (SpecEmit).                                     *)
(***************************************************************************)
\* The emissions of the step that listener l is registered for: those of its
\* name, or all if it is a wildcard, from its node or a descendant of it.
EmissionsFor(l) ==
  SelectSeq(log', LAMBDA e :
    /\ e.name # "(body)"
    /\ l.eventName = ALL \/ l.eventName = e.name
    /\ l.node = e.target \/ l.node \in Range(parents(toms', e.target)))

\* The calls of the step made to the handler h.
CallsTo(h) == SelectSeq(heard', LAMBDA c : c.handler = h)

\* C15 (as claimed): bubbling. For the emissions of every step, each listener
\* registered by on() on the emitting node or on one of its ancestors, for the
\* event's name or as a wildcard, is called exactly once per emission, with
\* the emitting node as this and the event's arguments (after the event name,
\* for a wildcard), in the order of emission; a once listener is registered
\* up to its first call. No other handler is called.
C15_Bubbling ==
  [][/\ \A i \in 1..Len(listeners) :
          LET l == listeners[i]
              all == EmissionsFor(l)
              due == IF l.once /\ all # <<>> THEN <<all[1]>> ELSE all
          IN ~IsPropagator(toms, l.handler) =>
               CallsTo(l.handler) =
                 [j \in 1..Len(due) |->
                    [handler |-> l.handler, this |-> due[j].target,
                     args |-> IF l.eventName = ALL THEN <<Str(due[j].name)>> \o due[j].args
                              ELSE due[j].args]]
     /\ \A j \in 1..Len(heard') :
          \E i \in 1..Len(listeners) : listeners[i].handler = heard'[j].handler]_vars

(***************************************************************************)
(* Properties of reset (SpecReset).                                        *)
(***************************************************************************)
\* The marks the node was constructed with.
ConfiguredSkip(n) == toms[n].options.skip = <<TRUE>>
ConfiguredOnly(n) == toms[n].options.only = <<TRUE>>

\* C16 (as claimed): reset() without deep on a pending node changes nothing
\* but the node's skip and only marks, which become the configured ones: its
\* state, index, ended flag, result, name, parent and children stay as they
\* were.
C16_ResetPendingKeepsFields ==
  [][\A n \in Nodes :
       Reset(n, FALSE) /\ toms[n].state = "pending" =>
         toms'[n] = [toms[n] EXCEPT !.markedSkip = ConfiguredSkip(n),
                                    !.markedOnly = ConfiguredOnly(n)]]_vars

AtConfigured(n) ==
  /\ toms'[n].state = "pending"
  /\ toms'[n].markedSkip = ConfiguredSkip(n)
  /\ toms'[n].markedOnly = ConfiguredOnly(n)

\* C17: after reset(true) the node and each of its descendants is pending with
\* its configured skip and only marks, whatever state each of them was in;
\* reset() without deep does that to the node it is called on and leaves the
\* state and the marks of every other node as they were.
C17_DeepReset ==
  [][\A n \in Nodes :
       /\ ret'.op = "reset" /\ Reset(n, TRUE) =>
            \A m \in Range(Iterate(toms, n)) : AtConfigured(m)
       /\ ret'.op = "reset" /\ Reset(n, FALSE) =>
            /\ AtConfigured(n)
            /\ \A m \in Nodes \ {n} :
                 /\ toms'[m].state = toms[m].state
                 /\ toms'[m].markedSkip = toms[m].markedSkip
                 /\ toms'[m].markedOnly = toms[m].markedOnly]_vars

\* A deep reset of the root of a chain has just taken the root out of pass,
\* its child out of fail and its grandchild out of skipped; the root, skipped
\* by the child's only mark before, has its configured mark again.
C17_Witness ==
  /\ ret = Return("reset", 1, Undefined)
  /\ Len(toms) = 3 /\ toms[2].parent = 1 /\ toms[3].parent = 2
  /\ [i \in 1..Len(log) |-> <<log[i].target, log[i].name, log[i].args>>]
       = << <<1, "reset", <<Str("pass")>> >>, <<2, "reset", <<Str("fail")>> >>,
            <<3, "reset", <<Str("skipped")>> >> >>
  /\ \A m \in Nodes : toms[m].state = "pending"
  /\ ~toms[1].markedSkip /\ toms[2].markedOnly /\ toms[3].markedSkip

\* C18: resetState(), called alone or by reset() without deep, succeeds from every
\* state, also from those no declared edge leaves: it returns without an
\* error, the state is the initial state, pending, and the node has emitted
\* one reset event carrying the previous state, which the listeners on the
\* node and its ancestors have received with the node as target.
C18_ResetStateAlwaysSucceeds ==
  [][\A n \in Nodes :
       ret'.op \in {"reset", "resetState"} /\ (Reset(n, FALSE) \/ ResetState(n)) =>
         /\ ~ret'.threw
         /\ toms'[n].state = InitialState
         /\ log' = <<[target |-> n, name |-> "reset", args |-> <<Str(toms[n].state)>>]>>
         /\ \A i \in 1..Len(listeners) :
              (/\ listeners[i].eventName = ALL
               /\ listeners[i].node \in {n} \cup Range(parents(toms, n))) =>
                CallsTo(listeners[i].handler) =
                  <<[handler |-> listeners[i].handler, this |-> n,
                     args |-> <<Str("reset"), Str(toms[n].state)>>]>>]_vars

\* The grandchild of the root has just been reset out of fail, a state that
\* no declared edge leaves, and the listener on the root has heard it.
C18_Witness ==
  /\ ret = Return("reset", 3, Undefined)
  /\ Len(toms) = 3 /\ toms[3].parent = 2 /\ toms[2].parent = 1
  /\ toms[3].state = "pending" /\ toms[3].ended
  /\ log = <<[target |-> 3, name |-> "reset", args |-> <<Str("fail")>>]>>
  /\ heard = <<[handler |-> "f", this |-> 3, args |-> <<Str("reset"), Str("fail")>>]>>

(***************************************************************************)
(* Properties of the state machine under any calls (Spec), continued.      *)
(***************************************************************************)
Settled == {"skipped", "ignored", "pass", "fail"}

\* C19: a node in skipped, ignored, pass or fail keeps its state through every
\* setState request, every run() and every continuation of a run; its state
\* changes only in a reset() or resetState(), and then to pending. A setState('pending') request
\* on a node that is not pending throws the invalid-move error and leaves the
\* state as it is.
C19_SettledUntilReset ==
  [][\A n \in Nodes :
       /\ (toms[n].state \in Settled /\ toms'[n].state # toms[n].state) =>
            /\ toms'[n].state = "pending"
            /\ ret' \in {Return("reset", n, Undefined), Return("resetState", n, Undefined)}
            /\ \E i \in 1..Len(log') : log'[i].target = n /\ log'[i].name = "reset"
       /\ (SetState(n, "pending") /\ toms[n].state # "pending") => Refused(n)]_vars

\* A node put into skipped has had run() called on it, which rejected with
\* the invalid-move error without calling the test function, and then a
\* setState('pending') request, which was refused; it is still skipped.
C19_Witness ==
  /\ ret = Throw("setState", 1, InvalidState("pending"))
  /\ toms[1].state = "skipped"
  /\ \E k \in RunIds :
       /\ runs[k].node = 1 /\ ~runs[k].invoked
       /\ runs[k].outcome[1] = "rejected" /\ IsInvalidMove(runs[k].outcome[2])

\* C20 (as claimed): setState(s) on a node whose state is s, for every state
\* s, pass and fail included, leaves the state and the ended flag as they are
\* and emits no event.
C20_SameStateIsNoOp ==
  [][\A n \in Nodes, s \in Targets :
       SetState(n, s) /\ toms[n].state = s =>
         /\ toms'[n].state = s /\ toms'[n].ended = toms[n].ended
         /\ log' = <<>>]_vars

(***************************************************************************)
(* Properties of a forest under construction and combine (SpecForest), and *)
(* of add() on any links (SpecLinks).                                       *)
(***************************************************************************)
ChildAt(p, i) == toms[toms[p].children[i]]

\* C21 (as claimed): after any sequence of construction, test, skip, only, add
\* and combine, no two direct children of the same parent have the same name.
C21_SiblingNamesUnique ==
  \A p \in Nodes :
    \A i, j \in 1..Len(toms[p].children) :
      i # j => ChildAt(p, i).name # ChildAt(p, j).name

\* The nodes an array of nodes names, in its order.
NodesOf(tests) == [i \in 1..Len(tests) |-> tests[i][2]]
AllValid(tests) == \A i \in 1..Len(tests) : ~validate(tests[i]).threw

\* C23 (as claimed): combine() of more than one node returns a fresh root with
\* maxConcurrency 1 whose children are exactly the given nodes, in the given
\* order, each with the new root as its parent; if a given value fails the
\* validation, combine fails.
C23_CombineSeveral ==
  [][\A tests \in TestArrays, name \in RootNames :
       Len(tests) > 1 /\ Combine(tests, name) =>
         IF AllValid(tests)
         THEN LET r == Len(toms) + 1
              IN /\ ret' = Return("combine", 0, TomRef(r))
                 /\ Len(toms') = r
                 /\ toms'[r].parent = 0
                 /\ toms'[r].maxConcurrency = 1
                 /\ toms'[r].children = NodesOf(tests)
                 /\ \A i \in 1..Len(tests) : toms'[tests[i][2]].parent = r
         ELSE ret'.threw]_vars

\* C24: combine() of exactly one node returns that node and creates no root;
\* the node's parent, children, name, index and state are as before.
C24_CombineOne ==
  [][\A n \in Nodes, name \in RootNames :
       ret'.op = "combine" /\ Combine(<<TomRef(n)>>, name) =>
         /\ ret' = Return("combine", 0, TomRef(n))
         /\ Len(toms') = Len(toms)
         /\ toms'[n].parent = toms[n].parent
         /\ toms'[n].children = toms[n].children
         /\ toms'[n].name = toms[n].name
         /\ toms'[n].index = toms[n].index
         /\ toms'[n].state = toms[n].state]_vars

\* The middle node of a chain of three has just been returned by combine().
C24_Witness ==
  /\ ret = Return("combine", 0, TomRef(2))
  /\ Len(toms) = 3 /\ toms[2].parent = 1 /\ toms[2].children = <<3>>
  /\ toms[2].index = 1

\* The nodes of the tree below and including n.
TreeOf(ts, n) == Range(Iterate(ts, n))

\* C25: after combine() of several trees, if any node of any of them is marked
\* only, the new root and every node of every combined tree that is not marked
\* only is effectively skipped.
C25_CombinedOnlyWins ==
  [][\A tests \in TestArrays, name \in RootNames :
       Len(tests) > 1 /\ ret'.op = "combine" /\ ~ret'.threw /\ Combine(tests, name) =>
         LET r == ret'.value[2]
         IN (\E t \in TreeOf(toms', r) \ {r} : toms'[t].markedOnly) =>
              /\ toms'[r].markedSkip
              /\ \A i \in 1..Len(tests) : \A t \in TreeOf(toms', tests[i][2]) :
                   ~toms'[t].markedOnly => toms'[t].markedSkip]_vars

\* A root with an only child and a root that no resolution had reached have
\* just been combined: both roots and the new root are skipped, the child not.
C25_Witness ==
  /\ ret = Return("combine", 0, TomRef(4))
  /\ Len(toms) = 4 /\ toms[4].children = <<1, 3>> /\ toms[1].children = <<2>>
  /\ toms[2].markedOnly /\ ~toms[2].markedSkip
  /\ toms[3].options.skip # <<TRUE>>
  /\ toms[1].markedSkip /\ toms[3].markedSkip /\ toms[4].markedSkip

\* The candidate has all of name, testFn, index and ended.
Exposes(v) == v \notin {Undefined, Null} /\ ValidKeys \subseteq ObjectKeys(v)

\* The value a failure is to carry: an omitted candidate stands for the empty
\* object.
Offending(v) == IF v = Undefined THEN Shape({}) ELSE v

\* C26 (as claimed): validate() succeeds exactly when the candidate has all of
\* name, testFn, index and ended, as every constructed node has; otherwise it
\* fails with an error that carries the offending value.
C26_ValidateCarriesValue ==
  [][\A v \in Candidates :
       Validate(v) =>
         /\ v[1] = "tom" => Exposes(v)
         /\ IF Exposes(v)
            THEN ret' = Return("validate", 0, Undefined)
            ELSE ret'.threw /\ ret'.value[4] = Offending(v)]_vars

\* The tree capability set.
CapabilitySet == {"children", "add", "parent", "level", "root"}

\* The value has every member of the set; an instance has them all.
Capable(v) == v[1] = "tom" \/ CapabilitySet \subseteq ObjectKeys(v)

\* C27 (as claimed): add() fails when its argument lacks a member of the tree
\* capability set, children, add, parent, level and root, and then changes no
\* node; otherwise it sets the child's parent to the receiver, appends the
\* child after the receiver's children, which keep their order, and returns
\* the child.
C27_Add ==
  [][\A p \in Toms, child \in LinkCandidates :
       ret'.op = "add" /\ AddLinked(p, child) =>
         IF Capable(child)
         THEN /\ ret' = Return("add", p, child)
              /\ toms'[child[2]].parent = p
              /\ toms'[p].children = Append(toms[p].children, child[2])
              /\ Len(toms') = Len(toms)
         ELSE ret'.threw /\ toms' = toms]_vars

(***************************************************************************)
(* Properties of construction (SpecNew).                                    *)
(***************************************************************************)
Strings(args) == {args[i] : i \in {j \in 1..Len(args) : TypeOf(args[j]) = "string"}}
Callables(args) == {args[i] : i \in {j \in 1..Len(args) : TypeOf(args[j]) = "function"}}
Records(args) == {args[i] : i \in {j \in 1..Len(args) : TypeOf(args[j]) = "object"}}

\* The option the records of the argument list give, or the default.
Given(args, key, dflt) ==
  IF \E o \in Records(args) : o[2][key] # <<>>
  THEN (CHOOSE o \in Records(args) : o[2][key] # <<>>)[2][key][1]
  ELSE dflt

\* The node has the name, the body and the options of the argument list,
\* each found by its type, and the defaults for what the list omits.
Resolved(t, args) ==
  /\ t.name = IF Strings(args) = {} THEN "tom" ELSE (CHOOSE v \in Strings(args) : TRUE)[2]
  /\ t.testFn = IF Callables(args) = {} THEN Undefined ELSE Fn
  /\ t.timeout = Given(args, "timeout", 10000)
  /\ t.maxConcurrency = Given(args, "maxConcurrency", 10)
  /\ t.markedSkip = Given(args, "skip", FALSE)
  /\ t.markedOnly = Given(args, "only", FALSE)

\* C30 (as claimed): construction finds the name, the body and the options
\* among its arguments by their type, for every order of the arguments, and
\* gives an omitted name the placeholder, an omitted timeout 10000, an omitted
\* maxConcurrency 10 and omitted skip and only marks false.
C30_AnyOrder ==
  [][\A args \in ArgLists :
       Constructed(args) => Resolved(toms'[Len(toms')], args)]_vars

\* C34 (as claimed): in every reachable state of a node, after any runs,
\* setState requests that succeed or fail, and resets, the ended flag is true
\* exactly when the node's state is pass or fail.
C34_EndedIffPassOrFail ==
  \A n \in Nodes : toms[n].ended <=> toms[n].state \in {"pass", "fail"}

\* C35 (as claimed): only-wins survives reset. In a tree with a node marked
\* only, after reset() or reset(true) on any node every node not marked only
\* is still effectively skipped, and run() of such a node with a test function
\* ends in skipped without calling the function.
C35_OnlyWinsAfterReset ==
  [][/\ \A n \in Nodes, deep \in BOOLEAN :
          OnlyInTree /\ RunnerReset(n, deep) =>
            \A m \in Nodes : ~toms'[m].markedOnly => toms'[m].markedSkip
     /\ \A n \in Nodes, b \in Behaviours :
          OnlyInTree /\ ~MarkedOnly(n) /\ HasBody(n) /\ toms[n].state = "pending"
            /\ RunnerRun(n, b) =>
              toms'[n].state = "skipped" /\ ~NewestRun.invoked]_vars

(***************************************************************************)
(* Properties of overlapping calls (SpecOverlap).                           *)
(***************************************************************************)
Emitted(n, eventName) == \E i \in 1..Len(log') : log'[i].target = n /\ log'[i].name = eventName

\* C36 (as claimed): between two resets the test function of a node is called
\* at most once and at most one end event is emitted for the node, also when
\* run() is called while a run of the node is in progress: no step calls the
\* function of a node that has left pending since its last reset, and no step
\* emits end for a node that is in pass or fail.
C36_OneCallOneEnd ==
  [][\A n \in Nodes :
       /\ toms[n].state \in {"in-progress", "pass", "fail"} => ~Emitted(n, "(body)")
       /\ toms[n].state \in {"pass", "fail"} => ~Emitted(n, "end")]_vars

\* C37 (as claimed): whatever resets are interleaved with the one run of a
\* node in flight, the run settles with the outcome of the test function's
\* promise, if that decides the race, or else with the timeout error; it never
\* rejects with an invalid-move error.
C37_ResetDuringRun ==
  [][\A k \in 1..Len(runs) :
       Len(runs) = 1 /\ runs[k].outcome = Pending /\ runs'[k].outcome # Pending =>
         /\ runs'[k].winner = "body" => runs'[k].outcome = bodyResult(runs[k])
         /\ runs'[k].winner = "timer" =>
              runs'[k].outcome = Rejected(TimeoutError(runs[k].timeout))
         /\ ~IsInvalidMove(runs'[k].outcome[2])]_vars

(***************************************************************************)
(* Properties of the runner under the event loop's guarantee (SpecLive).    *)
(***************************************************************************)
\* C38: a node that a run has put into in-progress, its test function having
\* returned a promise, eventually leaves in-progress for pass or fail, also
\* when the promise never settles: the timer then fires and fails the node.
\* The timer is assumed to fire: a process that ends before, with the timer
\* unfired, is outside the claim.
C38_LeavesInProgress ==
  \A n \in 1..MaxRunNodes :
    (n <= Len(toms) /\ toms[n].state = "in-progress")
      ~> (Ended \/ (n <= Len(toms) /\ toms[n].state \in {"pass", "fail"}))

\* A run whose test function returned a promise that never settles has been
\* failed by the timer.
C38_Witness ==
  \E k \in RunIds :
    /\ runs[k].invoked /\ runs[k].bodyOut[1] = "never" /\ runs[k].winner = "timer"
    /\ runs[k].outcome = Rejected(TimeoutError(runs[k].timeout))
    /\ toms[runs[k].node].state = "fail"


(***************************************************************************)
(* Properties of once listeners (SpecOnce).                                *)
(***************************************************************************)
\* C32: once. In every emit() step, a listener registered with once is called
\* at most one time, also when a handler emits a further matching event
\* during the dispatch; it is removed by the step that calls it; and no
\* listener that is not a once listener called in the step is removed.
C32_OnceListeners ==
  [][ret'.op = "emit" =>
       \A i \in 1..Len(listeners) :
         LET l == listeners[i]
             calls == Len(CallsTo(l.handler))
             kept == \E j \in 1..Len(listeners') : listeners'[j] = l
         IN /\ l.once => calls <= 1
            /\ kept <=> ~(l.once /\ calls > 0)]_vars

====
